---- MODULE Spec2Model ----
(***************************************************************************)
(* A state-machine model of the Starlight payment-channel agent            *)
(* (src/starlight/agent.go).                                               *)
(*                                                                         *)
(* The persistent store of one agent is one record, a "root"; a write      *)
(* transaction (db.Update) is an operator from a root to a result          *)
(* [root, err, ...], and the store keeps the new root only when err is     *)
(* "nil".  Fields of the Agent struct that live in memory (seed, worker    *)
(* goroutines, the wallet latch) are separate variables: a rolled-back     *)
(* transaction does not restore them.                                      *)
(*                                                                         *)
(* Amounts are in stroops.  Account addresses are integers whose order     *)
(* stands for the lexicographic order of the strkey strings.               *)
(***************************************************************************)
EXTENDS Integers, Sequences, FiniteSets, TLC

(* ------------------------------------------------------------------ *)
(* Bounds of the model                                                *)
(* ------------------------------------------------------------------ *)

\* how many entries the update log may hold before commands stop being issued
MaxUpdates == 4

\* how many ledger transactions a wallet stream delivers
MaxLedger == 3

\* how many DoCreateChannel calls the agents make between them
MaxCreate == 2

(* ------------------------------------------------------------------ *)
(* Program constants                                                  *)
(* ------------------------------------------------------------------ *)

Stroop == 1
Millilumen == 10000

baseReserve == 500 * Millilumen

defaultMaxRoundDurMins == 60
defaultFinalityDelayMins == 60
defaultChannelFeerate == 10 * Millilumen
defaultHostFeerate == 100 * Stroop

\* bcrypt refuses passwords longer than this
MaxPasswordLen == 72

(* ------------------------------------------------------------------ *)
(* Agents, seeds, keys                                                *)
(* ------------------------------------------------------------------ *)

Agents == {1, 2}

Peer(a) == 3 - a

\* nil []byte
NoSeed == 0

\* the values randRead may put into a fresh seed; two agents never draw
\* the same 32 bytes, and either agent may get the smaller address
RandSeeds(a) == IF a = 1 THEN {1, 3} ELSE {2}

KeyStride == 100

\* key.DeriveAccount(seed, i).Address(): one address per (seed, index)
DeriveAccount(s, i) == s * KeyStride + i

\* key.DeriveAccountPrimary(seed): the account at index 0
DeriveAccountPrimary(s) == DeriveAccount(s, 0)

\* sealBox / openBox: a box opens to its content only with the password
\* that sealed it
sealBox(s, pw) == [box |-> s, key |-> pw]

openBox(enc, pw) == IF enc.key = pw THEN enc.box ELSE NoSeed

\* bcrypt.GenerateFromPassword / bcrypt.CompareHashAndPassword
bcryptHash(pw) == [bcrypt |-> pw]

bcryptMatches(digest, pw) == digest = bcryptHash(pw)

(* ------------------------------------------------------------------ *)
(* Configuration inputs                                               *)
(* ------------------------------------------------------------------ *)

TestnetURL == "https://horizon-testnet.stellar.org"
MainnetURL == "https://horizon.stellar.org"

\* worizon.Client.ValidateTestnetURL: only a test network is accepted
ValidateTestnetURL(url) == IF url = TestnetURL THEN "nil" ELSE "errNotTestnet"

Alice == <<"a", "l", "i", "c", "e">>
BadName == <<"a", "*", "b">>

\* validateUsername: a user name holds no '*' (it is joined to the host
\* with '*' to make the federation address)
validateUsername(u) == \A i \in 1..Len(u) : u[i] # "*"

GoodPassword == "hunter2"
OtherPassword == "correct horse"
LongPassword == "0123456789012345678901234567890123456789012345678901234567890123456789012"

\* The Config struct as ConfigInit receives it.  KeepAlive is a *bool.
Config(u, pw, url, mrd, fd, cf, hf, ka, pub) ==
    [Username |-> u, Password |-> pw, HorizonURL |-> url,
     MaxRoundDurMins |-> mrd, FinalityDelayMins |-> fd,
     ChannelFeerate |-> cf, HostFeerate |-> hf,
     KeepAlive |-> ka, Public |-> pub]

ConfigInits ==
    { Config(u, pw, url, mrd, fd, cf, hf, ka, pub) :
        u \in {Alice, BadName},
        pw \in {"", GoodPassword, LongPassword},
        url \in {TestnetURL, MainnetURL},
        mrd \in {-1, 0, 30},
        fd \in {-1, 0, 30},
        cf \in {-1, 0},
        hf \in {-1, 0},
        ka \in {"nil", "true", "false"},
        pub \in BOOLEAN }

\* what the wallet front end sends for a demo server
DemoConfig(pub) ==
    Config(Alice, GoodPassword, TestnetURL, 0, 0, 0, 0, "nil", pub)

(* ------------------------------------------------------------------ *)
(* The persistent store                                               *)
(* ------------------------------------------------------------------ *)

ZeroConfig ==
    [Username |-> <<>>, PwType |-> "", PwHash |-> bcryptHash(""),
     HorizonURL |-> "", MaxRoundDurMins |-> 0, FinalityDelayMins |-> 0,
     ChannelFeerate |-> 0, HostFeerate |-> 0, KeepAlive |-> FALSE,
     Public |-> FALSE]

ZeroWallet ==
    [NativeBalance |-> 0, Reserve |-> 0, Seqnum |-> 0, Cursor |-> 0,
     Address |-> <<>>, Balances |-> <<>>]

\* an empty bolt database: every bucket under "agent" is absent, and so
\* is the task basket
EmptyRoot ==
    [Config |-> ZeroConfig,
     Ready |-> FALSE,
     EncryptedSeed |-> sealBox(NoSeed, ""),
     NextKeypathIndex |-> 0,
     PrimaryAcct |-> 0,
     Wallet |-> ZeroWallet,
     Channels |-> <<>>,
     Messages |-> <<>>,
     Updates |-> <<>>,
     Tasks |-> <<>>]

\* the result of the function passed to db.Update / db.View
Ok(root) == [root |-> root, err |-> "nil"]

Fail(root, e) == [root |-> root, err |-> e]

\* db.Update: the transaction commits when its function returns nil and
\* rolls back otherwise
Commit(old, res) == IF res.err = "nil" THEN res.root ELSE old

isReadyConfigured(root) == root.Config.HorizonURL # ""

isReadyFunded(root) == root.Wallet.Seqnum > 0

\* Agent.putUpdate: append an Update record to the log
putUpdate(root, u) == [root EXCEPT !.Updates = Append(@, u)]

Update(type, input, balance) ==
    [Type |-> type, Input |-> input, Balance |-> balance]

(* ------------------------------------------------------------------ *)
(* State                                                              *)
(* ------------------------------------------------------------------ *)

VARIABLES
    db,     \* db[a]: the persistent store of agent a
    seed,   \* seed[a]: Agent.seed, NoSeed when nil
    proc,   \* proc[a]: goroutines started by allez, the wallet latch, wclient URL
    chain,  \* chain[a]: the wallet stream of a: transactions delivered, account exists
    calls,  \* calls[a]: calls and goroutines of a that are between two transactions
    net,    \* net[a]: the task runner's request in flight, transactions a submitted
    ret     \* what the last call returned: [op, agent, err]

vars == <<db, seed, proc, chain, calls, net, ret>>

\* no call is in progress: made counts the DoCreateChannel calls so far,
\* create holds the calls that passed checkChannelUnique and wait for
\* their update transaction, cmds the DoCommand goroutines not yet run,
\* timers the channels with an armed timer, wait the WaitMsg call of the
\* agent's long-poll handler
ZeroCalls ==
    [made |-> 0, create |-> {}, cmds |-> {}, timers |-> {}, wait |-> [pc |-> "idle"],
     tx |-> [pc |-> "idle"]]

\* the task runner is idle
NoReq == [pc |-> "idle"]

\* nothing travels: req is how far the peer is in handling the message
\* the runner posted, txs the submitted transactions the channel watcher
\* has not seen yet
ZeroNet == [req |-> NoReq, txs |-> {}]

\* the Agent struct right after StartAgent allocated it: the wallet latch
\* (Agent.wallet) is open, no goroutine runs, rootCtx is not cancelled
\* (closed).  watchers holds the account each running watchWalletAcct
\* goroutine was started for, tries the failed attempts of the faucet loop
\* (2 stands for two or more).
ZeroProc ==
    [latch |-> "open", faucet |-> 0, tries |-> 0, watchers |-> <<>>, runner |-> 0,
     url |-> "", closed |-> FALSE]

\* the wallet stream of an agent before the ledger knows its account
ZeroChain == [n |-> 0, open |-> FALSE]

Ret(op, a, e) == [op |-> op, agent |-> a, err |-> e]

\* Agent.start, the part that acts on the Agent struct: the latch, the
\* goroutines and the Horizon URL
start(p, root) ==
    IF ~isReadyConfigured(root) THEN p
    ELSE [p EXCEPT
            !.latch = IF isReadyFunded(root)
                      THEN (IF @ = "open" THEN "closed" ELSE "panic")
                      ELSE @,
            !.faucet = IF isReadyFunded(root) THEN @ ELSE @ + 1,
            !.tries = IF isReadyFunded(root) THEN @ ELSE 0,
            !.watchers = Append(@, root.PrimaryAcct),
            !.runner = @ + 1,
            !.url = root.Config.HorizonURL]

(* ------------------------------------------------------------------ *)
(* ConfigInit                                                         *)
(* ------------------------------------------------------------------ *)

\* the defaults ConfigInit fills in for unspecified fields
WithDefaults(c) ==
    [c EXCEPT
        !.MaxRoundDurMins = IF @ = 0 THEN defaultMaxRoundDurMins ELSE @,
        !.FinalityDelayMins = IF @ = 0 THEN defaultFinalityDelayMins ELSE @,
        !.ChannelFeerate = IF @ = 0 THEN defaultChannelFeerate ELSE @,
        !.HostFeerate = IF @ = 0 THEN defaultHostFeerate ELSE @,
        !.KeepAlive = IF @ = "nil" THEN "true" ELSE @]

\* the function ConfigInit passes to db.Update; s is the seed randRead drew
ConfigInitTx(root, c, hostURL, s) ==
    IF isReadyConfigured(root) THEN Fail(root, "errAlreadyConfigured")
    ELSE IF Len(c.Password) > MaxPasswordLen THEN Fail(root, "errInvalidPassword")
    ELSE IF c.Password = "" THEN Fail(root, "errInvalidPassword")
    ELSE IF ~validateUsername(c.Username) THEN Fail(root, "errInvalidUsername")
    ELSE IF c.MaxRoundDurMins < 0 THEN Fail(root, "errInvalidInput")
    ELSE IF c.FinalityDelayMins < 0 THEN Fail(root, "errInvalidInput")
    ELSE IF c.ChannelFeerate < 0 THEN Fail(root, "errInvalidInput")
    ELSE IF c.HostFeerate < 0 THEN Fail(root, "errInvalidInput")
    ELSE
      LET d == WithDefaults(c)
          primaryAcct == DeriveAccountPrimary(s)
          root1 ==
            [root EXCEPT
               !.Config = [Username |-> c.Username,
                           PwType |-> "bcrypt",
                           PwHash |-> bcryptHash(c.Password),
                           HorizonURL |-> c.HorizonURL,
                           MaxRoundDurMins |-> d.MaxRoundDurMins,
                           FinalityDelayMins |-> d.FinalityDelayMins,
                           ChannelFeerate |-> d.ChannelFeerate,
                           HostFeerate |-> d.HostFeerate,
                           KeepAlive |-> (d.KeepAlive = "true"),
                           Public |-> c.Public],
               !.Ready = TRUE,
               !.EncryptedSeed = sealBox(s, c.Password),
               !.NextKeypathIndex = 1,
               !.PrimaryAcct = primaryAcct,
               !.Wallet = [ZeroWallet EXCEPT !.Address = c.Username \o <<"*">> \o hostURL]]
      IN  Ok(putUpdate(root1, Update("Init", "ConfigInit", 0)))

\* Agent.ConfigInit.  The seed is drawn inside the transaction function
\* right after the already-configured check and before any validation.
ConfigInit(a, c, s) ==
    LET urlErr == ValidateTestnetURL(c.HorizonURL)
        res == ConfigInitTx(db[a], c, <<"h">>, s)
    IN  IF urlErr # "nil"
        THEN /\ ret' = Ret("ConfigInit", a, urlErr)
             /\ UNCHANGED <<db, seed, proc, chain, calls, net>>
        ELSE /\ UNCHANGED <<chain, calls, net>>
             /\ db' = [db EXCEPT ![a] = Commit(@, res)]
             /\ seed' = IF isReadyConfigured(db[a]) THEN seed
                        ELSE [seed EXCEPT ![a] = s]
             /\ proc' = IF res.err = "nil"
                        THEN [proc EXCEPT ![a] = start(@, res.root)]
                        ELSE proc
             /\ ret' = Ret("ConfigInit", a, res.err)

(* ------------------------------------------------------------------ *)
(* Wallet commands                                                    *)
(* ------------------------------------------------------------------ *)

\* maps kept in the store: Put overwrites, Del removes, Has tests
Put(f, k, v) == (k :> v) @@ f

Del(f, k) == [x \in (DOMAIN f) \ {k} |-> f[x]]

Has(f, k) == k \in DOMAIN f

\* An address string: 0 is the empty string, a negative number a string
\* that is no strkey address, a positive number a valid address.
ValidAddress(addr) == addr > 0

\* xdr.Asset.SetCredit accepts codes of 1 to 12 characters
ValidAssetCode(code) == Len(code) >= 1 /\ Len(code) <= 12

Asset(code, issuer) == [Code |-> code, Issuer |-> issuer]

\* the zero value of xdr.Asset (its Type is native)
ZeroAsset == Asset("", 0)

Balance(asset, amount, pending, authorized) ==
    [Asset |-> asset, Amount |-> amount, Pending |-> pending, Authorized |-> authorized]

\* the zero value of fsm.Balance
ZeroBalance == Balance(ZeroAsset, 0, FALSE, FALSE)

walletBucket == 0

\* a TbTx in the task basket: a signed envelope with its sequence number
TxTask(chanID, seq, signer, body) ==
    [Kind |-> "tx", ChanID |-> chanID, Seq |-> seq, Signer |-> signer, Body |-> body]

\* Agent.addTxTask: the task is added inside the caller's transaction
addTxTask(root, t) == [root EXCEPT !.Tasks = Append(@, t)]

\* AddAssetTx without the check of the ready flag
AddAssetTx_NoReadyCheck(root, s, assetCode, issuer, built) ==
    LET w == root.Wallet
        hostFeerate == root.Config.HostFeerate
        asset == Asset(assetCode, issuer)
        w1 == [w EXCEPT
                 !.Balances = Put(@, asset, Balance(asset, 0, TRUE, FALSE)),
                 !.NativeBalance = @ - (baseReserve + hostFeerate),
                 !.Reserve = @ + baseReserve,
                 !.Seqnum = @ + 1]
        root1 == [root EXCEPT !.Wallet = w1]
        root2 == putUpdate(root1, Update("Account", "AddAsset", w1.NativeBalance))
    IN  IF w.NativeBalance < hostFeerate + baseReserve
             THEN Fail(root, "errInsufficientBalance")
        ELSE IF ~ValidAddress(issuer) THEN Fail(root, "errInvalidAddress")
        ELSE IF ~ValidAssetCode(assetCode) THEN Fail(root, "errInvalidAsset")
        ELSE IF ~built THEN Fail(root1, "errBuild")
        ELSE Ok(addTxTask(root2,
                 TxTask(walletBucket, w1.Seqnum, DeriveAccountPrimary(s), "Trust")))

\* the function AddAsset passes to db.Update.  built: whether b.Transaction
\* and Sign returned no error.
AddAssetTx(root, s, assetCode, issuer, built) ==
    LET w == root.Wallet
        hostFeerate == root.Config.HostFeerate
        asset == Asset(assetCode, issuer)
        w1 == [w EXCEPT
                 !.Balances = Put(@, asset, Balance(asset, 0, TRUE, FALSE)),
                 !.NativeBalance = @ - (baseReserve + hostFeerate),
                 !.Reserve = @ + baseReserve,
                 !.Seqnum = @ + 1]
        root1 == [root EXCEPT !.Wallet = w1]
        root2 == putUpdate(root1, Update("Account", "AddAsset", w1.NativeBalance))
    IN  IF ~root.Ready THEN Fail(root, "errAgentClosing")
        ELSE IF w.NativeBalance < hostFeerate + baseReserve
             THEN Fail(root, "errInsufficientBalance")
        ELSE IF ~ValidAddress(issuer) THEN Fail(root, "errInvalidAddress")
        ELSE IF ~ValidAssetCode(assetCode) THEN Fail(root, "errInvalidAsset")
        ELSE IF ~built THEN Fail(root1, "errBuild")
        ELSE Ok(addTxTask(root2,
                 TxTask(walletBucket, w1.Seqnum, DeriveAccountPrimary(s), "Trust")))

\* Agent.AddAsset
AddAsset(a, assetCode, issuer, built) ==
    LET res == AddAssetTx(db[a], seed[a], assetCode, issuer, built)
    IN  /\ Len(db[a].Updates) < MaxUpdates
        /\ IF assetCode = ""
           THEN ret' = Ret("AddAsset", a, "errEmptyAsset") /\ UNCHANGED db
           ELSE IF issuer = 0
           THEN ret' = Ret("AddAsset", a, "errEmptyIssuer") /\ UNCHANGED db
           ELSE /\ db' = [db EXCEPT ![a] = Commit(@, res)]
                /\ ret' = Ret("AddAsset", a, res.err)
        /\ UNCHANGED <<seed, proc, chain, calls, net>>

\* the function RemoveAsset passes to db.Update
RemoveAssetTx(root, s, assetCode, issuer, built) ==
    LET w == root.Wallet
        hostFeerate == root.Config.HostFeerate
        asset == Asset(assetCode, issuer)
        w1 == [w EXCEPT
                 !.Balances = Put(@, asset, [w.Balances[asset] EXCEPT !.Authorized = FALSE]),
                 !.NativeBalance = @ - hostFeerate,
                 !.Seqnum = @ + 1]
        root1 == [root EXCEPT !.Wallet = w1]
        root2 == putUpdate(root1, Update("Account", "RemoveAsset", w1.NativeBalance))
    IN  IF ~root.Ready THEN Fail(root, "errAgentClosing")
        ELSE IF w.NativeBalance < hostFeerate THEN Fail(root, "errInsufficientBalance")
        ELSE IF ~ValidAddress(issuer) THEN Fail(root, "errInvalidAddress")
        ELSE IF ~ValidAssetCode(assetCode) THEN Fail(root, "errInvalidAsset")
        ELSE IF ~Has(w.Balances, asset) THEN Fail(root, "errInvalidAsset")
        ELSE IF w.Balances[asset].Amount # 0 THEN Fail(root, "errNonzeroBalance")
        ELSE IF ~built THEN Fail(root1, "errBuild")
        ELSE Ok(addTxTask(root2,
                 TxTask(walletBucket, w1.Seqnum, DeriveAccountPrimary(s), "RemoveTrust")))

\* Agent.RemoveAsset
RemoveAsset(a, assetCode, issuer, built) ==
    LET res == RemoveAssetTx(db[a], seed[a], assetCode, issuer, built)
    IN  /\ Len(db[a].Updates) < MaxUpdates
        /\ IF assetCode = ""
           THEN ret' = Ret("RemoveAsset", a, "errEmptyAsset") /\ UNCHANGED db
           ELSE IF issuer = 0
           THEN ret' = Ret("RemoveAsset", a, "errEmptyIssuer") /\ UNCHANGED db
           ELSE /\ db' = [db EXCEPT ![a] = Commit(@, res)]
                /\ ret' = Ret("RemoveAsset", a, res.err)
        /\ UNCHANGED <<seed, proc, chain, calls, net>>

\* the width of an amount in bits: 64 in the program
AmountBits == 28

\* the value a signed integer of AmountBits bits holds after an operation
\* whose exact result is x: Go's integers wrap around
wrapInt(x) == ((x + 2^(AmountBits - 1)) % 2^AmountBits) - 2^(AmountBits - 1)

\* xlm.Amount(amount): the unsigned command amount converted to the signed
\* balance type, which keeps the bits
xlmAmount(amount) == wrapInt(amount)

\* string(amount) as DoWalletPay hands it to b.CreditAmount: the character
\* whose code point is amount, which is a decimal number only for '0'..'9'
CreditAmountParses(amount) == amount >= 48 /\ amount <= 57

\* the function DoWalletPay passes to db.Update
DoWalletPayTx(root, s, dest, amount, assetCode, issuer, built) ==
    LET w == root.Wallet
        hostAcct == root.PrimaryAcct
        hostFeerate == root.Config.HostFeerate
        credit == assetCode # "" /\ issuer # 0
        asset == Asset(assetCode, issuer)
        trust == issuer # hostAcct
        wc == [w EXCEPT
                 !.Balances = IF trust
                              THEN Put(@, asset, [w.Balances[asset] EXCEPT !.Amount = @ - amount])
                              ELSE @,
                 !.NativeBalance = @ - hostFeerate,
                 !.Seqnum = @ + 1]
        wn == [w EXCEPT
                 !.NativeBalance = wrapInt(@ - wrapInt(xlmAmount(amount) + hostFeerate)),
                 !.Seqnum = @ + 1]
        w1 == IF credit THEN wc ELSE wn
        root1 == [root EXCEPT !.Wallet = w1]
        root2 == putUpdate(root1, Update("Account", "Pay", w1.NativeBalance))
        buildErr == \/ ~built
                    \/ ~ValidAddress(dest)
                    \/ credit /\ ~CreditAmountParses(amount)
    IN  IF ~root.Ready THEN Fail(root, "errAgentClosing")
        ELSE IF credit /\ w.NativeBalance <= hostFeerate
             THEN Fail(root, "errInsufficientBalance")
        ELSE IF credit /\ ~ValidAddress(issuer) THEN Fail(root, "errInvalidAddress")
        ELSE IF credit /\ ~ValidAssetCode(assetCode) THEN Fail(root, "errInvalidAsset")
        ELSE IF credit /\ trust /\ ~Has(w.Balances, asset) THEN Fail(root, "errInvalidAsset")
        ELSE IF credit /\ trust /\ w.Balances[asset].Amount <= amount
             THEN Fail(root, "errInsufficientBalance")
        ELSE IF credit /\ trust /\ ~w.Balances[asset].Authorized
             THEN Fail(root, "errUnauthorized")
        ELSE IF ~credit /\ w.NativeBalance <= wrapInt(xlmAmount(amount) + hostFeerate)
             THEN Fail(root, "errInsufficientBalance")
        ELSE IF buildErr THEN Fail(root1, "errBuild")
        ELSE Ok(addTxTask(root2,
                 TxTask(walletBucket, w1.Seqnum, DeriveAccountPrimary(s), "Payment")))

\* DoWalletPay if db.Update kept the writes of a transaction that failed
DoWalletPay_NoRollback(a, dest, amount, assetCode, issuer, built) ==
    LET res == DoWalletPayTx(db[a], seed[a], dest, amount, assetCode, issuer, built)
    IN  /\ Len(db[a].Updates) < MaxUpdates
        /\ dest # 0 /\ amount # 0
        /\ (assetCode = "") = (issuer = 0)
        /\ db' = [db EXCEPT ![a] = res.root]
        /\ ret' = Ret("DoWalletPay", a, res.err)
        /\ UNCHANGED <<seed, proc, chain, calls, net>>

\* Agent.DoWalletPay
DoWalletPay(a, dest, amount, assetCode, issuer, built) ==
    LET res == DoWalletPayTx(db[a], seed[a], dest, amount, assetCode, issuer, built)
    IN  /\ Len(db[a].Updates) < MaxUpdates
        /\ IF dest = 0
           THEN ret' = Ret("DoWalletPay", a, "errEmptyAddress") /\ UNCHANGED db
           ELSE IF amount = 0
           THEN ret' = Ret("DoWalletPay", a, "errEmptyAmount") /\ UNCHANGED db
           ELSE IF assetCode = "" /\ issuer # 0
           THEN ret' = Ret("DoWalletPay", a, "errEmptyAsset") /\ UNCHANGED db
           ELSE IF assetCode # "" /\ issuer = 0
           THEN ret' = Ret("DoWalletPay", a, "errEmptyIssuer") /\ UNCHANGED db
           ELSE /\ db' = [db EXCEPT ![a] = Commit(@, res)]
                /\ ret' = Ret("DoWalletPay", a, res.err)
        /\ UNCHANGED <<seed, proc, chain, calls, net>>

(* ------------------------------------------------------------------ *)
(* The wallet watcher                                                 *)
(* ------------------------------------------------------------------ *)

\* AccountId.Address(): the strkey string of an account.  It is compared
\* below with the wallet's federation address, a string of another form.
StrKey(addr) == <<"G", ToString(addr)>>

\* xdr.SequenceNumber(uint64(htx.Ledger) << 32); LedgerShift stands for 2^32
LedgerShift == 1000

\* an operation of a ledger transaction
Op(type, source, dest, amount, asset, limit, authorize) ==
    [Type |-> type, Source |-> source, Dest |-> dest, Amount |-> amount,
     Asset |-> asset, Limit |-> limit, Authorize |-> authorize]

\* a transaction as Horizon streams it; PT is the paging token
LedgerTx(pt, source, ops) == [PT |-> pt, Ledger |-> pt, Source |-> source, Ops |-> ops]

\* root.DeleteAgent: every bucket under "agent" goes; the task basket is a
\* sibling bucket and stays
DeleteAgent(root) == [EmptyRoot EXCEPT !.Tasks = root.Tasks]

AccountUpdate(w) == Update("Account", "Tx", w.NativeBalance)

\* the case xdr.OperationTypeCreateAccount
\* built: whether b.Transaction and tx.Sign of the home-domain transaction
\* returned no error
opCreateAccount(root, s, acctID, htx, op, built) ==
    LET hostFeerate == root.Config.HostFeerate
        w1 == [root.Wallet EXCEPT
                 !.NativeBalance = op.Amount - hostFeerate - 2 * baseReserve,
                 !.Reserve = 2 * baseReserve,
                 !.Seqnum = htx.Ledger * LedgerShift,
                 !.Cursor = htx.PT]
        root1 == putUpdate([root EXCEPT !.Wallet = w1], AccountUpdate(w1))
    IN  IF op.Dest # acctID THEN Ok(root)
        ELSE IF root.Config.Public
             THEN IF ~built THEN Fail(root1, "building home domain tx")
                  ELSE Ok(addTxTask(root1,
                      TxTask(walletBucket, w1.Seqnum + 1, DeriveAccountPrimary(s), "SetOptions")))
             ELSE Ok(root1)

\* opPayment if the wallet it writes back had lost its cursor
opPayment_ZeroCursor(root, acctID, htx, op) ==
    LET w == root.Wallet
        native == op.Asset = ZeroAsset
        w1 == [w EXCEPT
                 !.NativeBalance = IF native THEN @ + op.Amount ELSE @,
                 !.Balances = IF native THEN @ ELSE Put(@, op.Asset, ZeroBalance),
                 !.Cursor = 0]
    IN  IF op.Dest # acctID THEN Ok(root)
        ELSE IF ~native /\ op.Asset.Issuer = acctID THEN Ok(root)
        ELSE IF ~native /\ ~ValidAssetCode(op.Asset.Code) THEN Fail(root, "errInvalidAsset")
        ELSE Ok(putUpdate([root EXCEPT !.Wallet = w1], AccountUpdate(w1)))

\* the case xdr.OperationTypePayment.  For a non-native asset the entry
\* written back is the outer currBalance, which neither branch of the
\* if statement assigns: both act on the variable the if declares.
opPayment(root, acctID, htx, op) ==
    LET w == root.Wallet
        native == op.Asset = ZeroAsset
        w1 == [w EXCEPT
                 !.NativeBalance = IF native THEN @ + op.Amount ELSE @,
                 !.Balances = IF native THEN @ ELSE Put(@, op.Asset, ZeroBalance),
                 !.Cursor = htx.PT]
    IN  IF op.Dest # acctID THEN Ok(root)
        ELSE IF ~native /\ op.Asset.Issuer = acctID THEN Ok(root)
        ELSE IF ~native /\ ~ValidAssetCode(op.Asset.Code) THEN Fail(root, "errInvalidAsset")
        ELSE Ok(putUpdate([root EXCEPT !.Wallet = w1], AccountUpdate(w1)))

\* opAccountMerge if the merged account's buckets were left in place
opAccountMerge_NoWipe(root, acctID, htx, op) ==
    LET root1 == IF op.Source = acctID
                 THEN [putUpdate(root, Update("Account", "Tx", 0))
                          EXCEPT !.Ready = TRUE]
                 ELSE root
        w1 == [root1.Wallet EXCEPT
                 !.NativeBalance = @ + op.Amount,
                 !.Cursor = htx.PT]
    IN  IF op.Dest = acctID
        THEN Ok(putUpdate([root1 EXCEPT !.Wallet = w1], AccountUpdate(w1)))
        ELSE Ok(root1)

\* the case xdr.OperationTypeAccountMerge
opAccountMerge(root, acctID, htx, op) ==
    LET root1 == IF op.Source = acctID
                 THEN [putUpdate(DeleteAgent(root), Update("Account", "Tx", 0))
                          EXCEPT !.Ready = TRUE]
                 ELSE root
        w1 == [root1.Wallet EXCEPT
                 !.NativeBalance = @ + op.Amount,
                 !.Cursor = htx.PT]
    IN  IF op.Dest = acctID
        THEN Ok(putUpdate([root1 EXCEPT !.Wallet = w1], AccountUpdate(w1)))
        ELSE Ok(root1)

\* the case xdr.OperationTypeChangeTrust.  auth is what LoadAccount
\* answers for the issuer: "err", or its AuthRequired flag.
opChangeTrust(root, acctID, htx, op, auth) ==
    LET w == root.Wallet
        wRemove == [w EXCEPT
                      !.Balances = Del(@, op.Asset),
                      !.NativeBalance = @ + baseReserve,
                      !.Reserve = @ - baseReserve]
        wAdd == [w EXCEPT
                   !.Balances = Put(@, op.Asset, Balance(op.Asset, 0, FALSE, auth # "required"))]
        w1 == IF op.Limit = 0 THEN wRemove ELSE wAdd
    IN  IF StrKey(op.Source) # w.Address THEN Ok(root)
        ELSE IF op.Limit # 0 /\ op.Asset = ZeroAsset THEN Fail(root, "errNativeTrustline")
        ELSE IF op.Limit # 0 /\ auth = "err" THEN Fail(root, "errLoadAccount")
        ELSE Ok(putUpdate([root EXCEPT !.Wallet = w1], AccountUpdate(w1)))

\* the case xdr.OperationTypeAllowTrust.  As in opPayment, the entry
\* written back is the outer currBalance, still the zero value.
opAllowTrust(root, acctID, htx, op) ==
    LET w == root.Wallet
        asset == Asset(op.Asset.Code, op.Source)
        w1 == [w EXCEPT !.Balances = Put(@, asset, ZeroBalance)]
    IN  IF op.Dest # acctID THEN Ok(root)
        ELSE IF op.Asset = ZeroAsset THEN Fail(root, "errNativeTrustline")
        ELSE IF ~ValidAssetCode(op.Asset.Code) THEN Fail(root, "errInvalidAsset")
        ELSE Ok(putUpdate([root EXCEPT !.Wallet = w1], AccountUpdate(w1)))

applyOp(root, s, acctID, htx, op, auth, built) ==
    CASE op.Type = "CreateAccount" -> opCreateAccount(root, s, acctID, htx, op, built)
      [] op.Type = "Payment" -> opPayment(root, acctID, htx, op)
      [] op.Type = "AccountMerge" -> opAccountMerge(root, acctID, htx, op)
      [] op.Type = "ChangeTrust" -> opChangeTrust(root, acctID, htx, op, auth)
      [] op.Type = "AllowTrust" -> opAllowTrust(root, acctID, htx, op)
      [] OTHER -> Ok(root)

\* the loop over InputTx.Env.Tx.Operations: an error ends the transaction
\* function at once
RECURSIVE applyOps(_, _, _, _, _, _, _)
applyOps(root, s, acctID, htx, ops, auth, built) ==
    IF ops = <<>> THEN Ok(root)
    ELSE LET r == applyOp(root, s, acctID, htx, Head(ops), auth, built)
         IN  IF r.err # "nil" THEN r
             ELSE applyOps(r.root, s, acctID, htx, Tail(ops), auth, built)

\* the function the StreamTxs callback passes to db.Update for a
\* successful transaction
watchWalletTx(root, s, acctID, htx, auth, built) ==
    LET w1 == [root.Wallet EXCEPT !.Cursor = htx.PT]
        root1 == IF htx.Source = acctID
                 THEN putUpdate([root EXCEPT !.Wallet = w1], Update("TxSuccess", "Tx", 0))
                 ELSE root
    IN  applyOps(root1, s, acctID, htx, htx.Ops, auth, built)

\* getTestnetFaucetFunds returning: the faucet answered, and the deferred
\* close(g.wallet) runs
getTestnetFaucetFunds(a) ==
    /\ proc[a].faucet > 0
    /\ proc' = [proc EXCEPT ![a].faucet = @ - 1,
                            ![a].latch = IF @ = "open" THEN "closed" ELSE "panic"]
    /\ ret' = Ret("getTestnetFaucetFunds", a, "nil")
    /\ UNCHANGED <<db, seed, chain, calls, net>>

\* what the ledger can hold next for an account: its creation first, and
\* nothing after it was merged away
LedgerAllows(c, acctID, htx) ==
    LET creates == \E i \in 1..Len(htx.Ops) :
                      htx.Ops[i].Type = "CreateAccount" /\ htx.Ops[i].Dest = acctID
    IN  IF c.open THEN ~creates ELSE creates /\ c.n = 0

LedgerAfter(c, acctID, htx) ==
    [n |-> c.n + 1,
     open |-> ~\E i \in 1..Len(htx.Ops) :
                  htx.Ops[i].Type = "AccountMerge" /\ htx.Ops[i].Source = acctID]

\* watchWalletAcct: the StreamTxs callback for one successful transaction.
\* The callback returns nil whatever db.Update returned, so the stream
\* moves on.
watchWalletAcct(a, ops, source, auth, built) ==
    LET acctID == proc[a].watchers[1]
        htx == LedgerTx(chain[a].n + 1, source, ops)
        res == watchWalletTx(db[a], seed[a], acctID, htx, auth, built)
    IN  /\ proc[a].watchers # <<>>
        /\ proc[a].latch = "closed"
        /\ chain[a].n < MaxLedger
        /\ LedgerAllows(chain[a], acctID, htx)
        /\ db' = [db EXCEPT ![a] = Commit(@, res)]
        /\ chain' = [chain EXCEPT ![a] = LedgerAfter(@, acctID, htx)]
        /\ ret' = Ret("watchWalletAcct", a, res.err)
        /\ UNCHANGED <<seed, proc, calls, net>>

(* ------------------------------------------------------------------ *)
(* Wallet: a configured agent, its wallet stream and wallet commands   *)
(* ------------------------------------------------------------------ *)

HostURL == <<"h">>

\* the store ConfigInit leaves behind
ConfiguredRoot(c, s) == ConfigInitTx(EmptyRoot, c, HostURL, s).root

Faucet == 99
Other == 98
Issuer == 97

USD == Asset("USD", Issuer)

StartingBalances == {2 * baseReserve + 2100, 3 * baseReserve + 2200}

\* operations of transactions that touch the account acctID
WalletOps(acctID) ==
    { <<Op("CreateAccount", Faucet, acctID, sb, ZeroAsset, 0, FALSE)>> : sb \in StartingBalances }
    \cup { <<Op("Payment", src, acctID, 1000, asset, 0, FALSE)>> :
             src \in {Other}, asset \in {ZeroAsset, USD} }
    \cup { <<Op("Payment", acctID, Other, 50, ZeroAsset, 0, FALSE)>>,
           <<Op("AccountMerge", Other, acctID, 700, ZeroAsset, 0, FALSE)>>,
           <<Op("ChangeTrust", acctID, 0, 0, USD, 100, FALSE)>>,
           <<Op("ChangeTrust", acctID, 0, 0, USD, 0, FALSE)>>,
           <<Op("AllowTrust", Issuer, acctID, 0, USD, 0, TRUE)>> }

InitWallet ==
    \E s \in RandSeeds(1), pub \in BOOLEAN :
        /\ db = [a \in Agents |->
                   IF a = 1 THEN ConfiguredRoot(DemoConfig(pub), s) ELSE EmptyRoot]
        /\ seed = [a \in Agents |-> IF a = 1 THEN s ELSE NoSeed]
        /\ proc = [a \in Agents |->
                   IF a = 1 THEN start(ZeroProc, ConfiguredRoot(DemoConfig(pub), s))
                   ELSE ZeroProc]
        /\ chain = [a \in Agents |-> ZeroChain]
        /\ calls = [a \in Agents |-> ZeroCalls]
        /\ net = [a \in Agents |-> ZeroNet]
        /\ ret = Ret("ConfigInit", 1, "nil")

NextWallet ==
    \/ getTestnetFaucetFunds(1)
    \/ \E ops \in WalletOps(proc[1].watchers[1]), auth \in {"err", "required", "free"} :
          watchWalletAcct(1, ops, ops[1].Source, auth, TRUE)
    \/ \E code \in {"", "USD"}, issuer \in {0, -1, Issuer}, built \in BOOLEAN :
          AddAsset(1, code, issuer, built)
    \/ \E code \in {"", "USD"}, issuer \in {0, -1, Issuer}, built \in BOOLEAN :
          RemoveAsset(1, code, issuer, built)
    \/ \E dest \in {0, -1, Other}, amount \in {0, 50, 5000}, code \in {"", "USD"},
          issuer \in {0, Issuer, db[1].PrimaryAcct}, built \in BOOLEAN :
          DoWalletPay(1, dest, amount, code, issuer, built)

SpecWallet == InitWallet /\ [][NextWallet]_vars

(* ------------------------------------------------------------------ *)
(* Channels and the channel state machine                             *)
(* ------------------------------------------------------------------ *)

\* the zero value of fsm.Channel, which Channels().Get returns for an
\* unknown channel ID; its state is Start
ZeroChannel ==
    [ID |-> 0, Role |-> "", State |-> "Start", HostAcct |-> 0, GuestAcct |-> 0,
     HostAmount |-> 0, GuestAmount |-> 0, RoundNumber |-> 0, KeyIndex |-> 0,
     LastMsgIndex |-> 0, PeerMsgIndex |-> 0, MaxRoundDuration |-> 0,
     FinalityDelay |-> 0, ChannelFeerate |-> 0, HostFeerate |-> 0,
     RemoteURL |-> 0, PendingAmount |-> 0]

\* Agent.getChannel
getChannel(root, chanID) ==
    IF Has(root.Channels, chanID) THEN root.Channels[chanID] ELSE ZeroChannel

\* Agent.putChannel
putChannel(root, chanID, ch) == [root EXCEPT !.Channels = Put(@, chanID, ch)]

\* a peer message (fsm.Message); Round and Amount belong to payment messages
Message(chanID, type, host, guest, hostAmount, mrd, fd, round, amount) ==
    [ChannelID |-> chanID, MsgNum |-> 0, Type |-> type, HostAcct |-> host,
     GuestAcct |-> guest, HostAmount |-> hostAmount, MaxRoundDuration |-> mrd,
     FinalityDelay |-> fd, Round |-> round, Amount |-> amount]

ChannelMessage(ch, type, round, amount) ==
    Message(ch.ID, type, ch.HostAcct, ch.GuestAcct, ch.HostAmount,
            ch.MaxRoundDuration, ch.FinalityDelay, round, amount)

\* a local command (fsm.Command)
Command(name, amount) == [Name |-> name, Amount |-> amount]

\* fsm.Channel.SetupAndFundingReserveAmount: what the host's wallet puts up
\* for a channel: the funding itself, the base reserve of the escrow and
\* of the two ratchet accounts, and the fee of each setup transaction
SetupAndFundingReserveAmount(ch) ==
    ch.HostAmount + 3 * baseReserve + 3 * ch.HostFeerate

\* what a step of the state machine gives back: the new channel, outgoing
\* messages, ledger transactions to submit, and an error
FsmOut(ch, msgs, txs) == [ch |-> ch, msgs |-> msgs, txs |-> txs, err |-> "nil"]

FsmErr(ch, e) == [ch |-> ch, msgs |-> <<>>, txs |-> <<>>, err |-> e]

\* the balance of the local party of a channel
OwnAmount(ch) == IF ch.Role = "Host" THEN ch.HostAmount ELSE ch.GuestAmount

\* the channel after amount moved from the payer to the other party
AfterPayment(ch, payer, amount) ==
    IF payer = "Host"
    THEN [ch EXCEPT !.HostAmount = @ - amount, !.GuestAmount = @ + amount]
    ELSE [ch EXCEPT !.GuestAmount = @ - amount, !.HostAmount = @ + amount]

OtherRole(role) == IF role = "Host" THEN "Guest" ELSE "Host"

\* a step that sends one message: the message gets the next number of its
\* channel.  A Host's counter advances here; a Guest's advances when
\* addMsgTask puts the message in the outbound log.
FsmEmit(ch, type, round, amount) ==
    LET n == ch.LastMsgIndex + 1
        m == [ChannelMessage(ch, type, round, amount) EXCEPT !.MsgNum = n]
    IN  FsmOut(IF ch.Role = "Host" THEN [ch EXCEPT !.LastMsgIndex = n] ELSE ch,
               <<m>>, <<>>)

\* fsm.Updater.Cmd; s is the seed the updater signs with
fsmCmd(ch, c, s) ==
    CASE c.Name = "CreateChannel" ->
           IF ch.State # "Start" \/ ch.Role # "Host" THEN FsmErr(ch, "errUnexpectedState")
           ELSE IF s = NoSeed THEN FsmErr(ch, "errNoSeed")
           ELSE FsmOut([ch EXCEPT !.State = "SettingUp"], <<>>, <<"SetupAccounts">>)
      [] c.Name = "CleanUp" ->
           IF ch.State \notin {"SettingUp", "ChannelProposed"}
           THEN FsmErr(ch, "errUnexpectedState")
           ELSE IF s = NoSeed THEN FsmErr(ch, "errNoSeed")
           ELSE FsmOut([ch EXCEPT !.State = "AwaitingCleanup"], <<>>, <<"CleanUp">>)
      [] c.Name = "ChannelPay" ->
           IF ch.State # "PaymentChannel" THEN FsmErr(ch, "errUnexpectedState")
           ELSE IF c.Amount <= 0 \/ c.Amount > OwnAmount(ch)
                THEN FsmErr(ch, "errInsufficientBalance")
           ELSE IF s = NoSeed THEN FsmErr(ch, "errNoSeed")
           ELSE LET ch1 == [ch EXCEPT !.State = "PaymentProposed",
                                      !.RoundNumber = @ + 1,
                                      !.PendingAmount = c.Amount]
                IN  FsmEmit(ch1, "PaymentPropose", ch1.RoundNumber, c.Amount)
      [] c.Name = "CloseChannel" ->
           IF ch.State # "PaymentChannel" THEN FsmErr(ch, "errUnexpectedState")
           ELSE IF s = NoSeed THEN FsmErr(ch, "errNoSeed")
           ELSE FsmOut([ch EXCEPT !.State = "AwaitingClose"], <<>>, <<"CoopClose">>)
      [] OTHER -> FsmErr(ch, "errUnknownCommand")

\* fsm.Updater.Msg
fsmMsg(ch, m, s) ==
    CASE m.Type = "ChannelPropose" ->
           IF ch.State # "Start" THEN FsmErr(ch, "errUnexpectedState")
           ELSE IF m.HostAmount <= 0 THEN FsmErr(ch, "errBadRequest")
           ELSE IF s = NoSeed THEN FsmErr(ch, "errNoSeed")
           ELSE LET ch1 == [ch EXCEPT !.ID = m.ChannelID,
                                      !.State = "AwaitingFunding",
                                      !.HostAmount = m.HostAmount,
                                      !.GuestAmount = 0,
                                      !.RoundNumber = 1,
                                      !.MaxRoundDuration = m.MaxRoundDuration,
                                      !.FinalityDelay = m.FinalityDelay]
                IN  FsmEmit(ch1, "ChannelAccept", 1, 0)
      [] m.Type = "ChannelAccept" ->
           IF ch.State # "ChannelProposed" \/ ch.Role # "Host"
           THEN FsmErr(ch, "errUnexpectedState")
           ELSE IF s = NoSeed THEN FsmErr(ch, "errNoSeed")
           ELSE FsmOut([ch EXCEPT !.State = "AwaitingFunding"], <<>>, <<"Funding">>)
      [] m.Type = "PaymentPropose" ->
           IF ch.State # "PaymentChannel" THEN FsmErr(ch, "errUnexpectedState")
           ELSE IF m.Round # ch.RoundNumber + 1 THEN FsmErr(ch, "errBadRound")
           ELSE IF m.Amount <= 0 \/ m.Amount > OwnAmount([ch EXCEPT !.Role = OtherRole(@)])
                THEN FsmErr(ch, "errInsufficientBalance")
           ELSE IF s = NoSeed THEN FsmErr(ch, "errNoSeed")
           ELSE LET ch1 == [AfterPayment(ch, OtherRole(ch.Role), m.Amount)
                              EXCEPT !.RoundNumber = m.Round]
                IN  FsmEmit(ch1, "PaymentAccept", m.Round, m.Amount)
      [] m.Type = "PaymentAccept" ->
           IF ch.State # "PaymentProposed" THEN FsmErr(ch, "errUnexpectedState")
           ELSE IF m.Round # ch.RoundNumber \/ m.Amount # ch.PendingAmount
                THEN FsmErr(ch, "errBadRound")
           ELSE FsmOut([AfterPayment(ch, ch.Role, ch.PendingAmount)
                          EXCEPT !.State = "PaymentChannel", !.PendingAmount = 0],
                       <<>>, <<>>)
      [] OTHER -> FsmErr(ch, "errUnknownMessage")

\* fsm.Updater.Tx: a ledger transaction on one of the channel's accounts
fsmTx(ch, body, s) ==
    CASE body = "SetupAccounts" /\ ch.State = "SettingUp" ->
           IF s = NoSeed THEN FsmErr(ch, "errNoSeed")
           ELSE LET ch1 == [ch EXCEPT !.State = "ChannelProposed"]
                IN  FsmEmit(ch1, "ChannelPropose", 1, 0)
      [] body = "Funding" /\ ch.State = "AwaitingFunding" ->
           FsmOut([ch EXCEPT !.State = "PaymentChannel"], <<>>, <<>>)
      [] body = "CleanUp" /\ ch.State = "AwaitingCleanup" ->
           FsmOut(ZeroChannel, <<>>, <<>>)
      [] body = "CoopClose" /\ ch.State = "AwaitingClose" ->
           FsmOut([ch EXCEPT !.State = "Closed"], <<>>, <<>>)
      [] body = "Ratchet" /\ ch.State = "AwaitingRatchet" ->
           FsmOut([ch EXCEPT !.State = "AwaitingSettlementMintime"], <<>>, <<>>)
      [] body = "Settlement" /\ ch.State = "AwaitingSettlement" ->
           FsmOut([ch EXCEPT !.State = "Closed"], <<>>, <<>>)
      [] OTHER -> FsmErr(ch, "errUnexpectedTx")

\* fsm.Updater.Time: a timer of the channel fired.  A proposal nobody
\* accepted in time is cleaned up, which takes a fresh signature; a payment
\* nobody accepted in time is forced on chain with the ratchet transaction
\* signed in advance, and once that transaction is on the ledger and the
\* finality delay is over the settlement transaction, signed in advance
\* too, follows; in every other state the timer has nothing to do.
fsmTime(ch, s) ==
    CASE ch.State = "ChannelProposed" ->
           IF s = NoSeed THEN FsmErr(ch, "errNoSeed")
           ELSE FsmOut([ch EXCEPT !.State = "AwaitingCleanup"], <<>>, <<"CleanUp">>)
      [] ch.State = "PaymentProposed" ->
           FsmOut([ch EXCEPT !.State = "AwaitingRatchet"], <<>>, <<"Ratchet">>)
      [] ch.State = "AwaitingSettlementMintime" ->
           FsmOut([ch EXCEPT !.State = "AwaitingSettlement"], <<>>, <<"Settlement">>)
      [] OTHER -> FsmOut(ch, <<>>, <<>>)

\* the inputs of a step
CmdInput(c) == [Kind |-> "cmd", Cmd |-> c]

MsgInput(m) == [Kind |-> "msg", Msg |-> m]

TxInput(body) == [Kind |-> "tx", Tx |-> body]

TimeInput == [Kind |-> "time"]

fsmStep(ch, input, s) ==
    CASE input.Kind = "cmd" -> fsmCmd(ch, input.Cmd, s)
      [] input.Kind = "msg" -> fsmMsg(ch, input.Msg, s)
      [] input.Kind = "tx" -> fsmTx(ch, input.Tx, s)
      [] OTHER -> fsmTime(ch, s)

(* ------------------------------------------------------------------ *)
(* Channel operations of the agent                                    *)
(* ------------------------------------------------------------------ *)

\* the outbound message log of a Guest channel (message.Message)
ZeroLog == [Msgs |-> <<>>, LastSeqNum |-> 0]

\* message.Message.Add: the message gets the next sequence number of the
\* log and is appended
messageAdd(log, msg) ==
    [Msgs |-> Append(log.Msgs, [msg EXCEPT !.MsgNum = log.LastSeqNum + 1]),
     LastSeqNum |-> log.LastSeqNum + 1]

getMessages(root, chanID) ==
    IF Has(root.Messages, chanID) THEN root.Messages[chanID] ELSE ZeroLog

\* Agent.putMessage
putMessage(root, c, msg) ==
    [root EXCEPT !.Messages = Put(@, c.ID, messageAdd(getMessages(root, c.ID), msg))]

\* a TbMsg task: the message and where the runner posts it
MsgTask(remoteURL, msg) == [Kind |-> "msg", RemoteURL |-> remoteURL, Msg |-> msg]

\* addMsgTask if a Guest did not record the number of the logged message
addMsgTask_NoIndex(root, c, msg) ==
    IF c.Role = "Guest"
    THEN putChannel(putMessage(root, c, msg), c.ID, c)
    ELSE [root EXCEPT !.Tasks = Append(@, MsgTask(c.RemoteURL, msg))]

\* Agent.addMsgTask: a Guest logs the message for the Host to fetch and
\* records its number in the channel; a Host queues it for delivery
addMsgTask(root, c, msg) ==
    IF c.Role = "Guest"
    THEN LET root1 == putMessage(root, c, msg)
             c1 == [c EXCEPT !.LastMsgIndex = getMessages(root1, c.ID).LastSeqNum]
         IN  putChannel(root1, c.ID, c1)
    ELSE [root EXCEPT !.Tasks = Append(@, MsgTask(c.RemoteURL, msg))]

RECURSIVE addMsgTasks(_, _, _)
addMsgTasks(root, c, msgs) ==
    IF msgs = <<>> THEN root
    ELSE addMsgTasks(addMsgTask(root, c, Head(msgs)), getChannel(addMsgTask(root, c, Head(msgs)), c.ID), Tail(msgs))

RECURSIVE addTxTasks(_, _, _)
addTxTasks(root, c, txs) ==
    IF txs = <<>> THEN root
    ELSE addTxTasks(addTxTask(root, TxTask(c.ID, root.Wallet.Seqnum, c.ID, Head(txs))),
                    c, Tail(txs))

\* Agent.doUpdateChannel, after the caller's function prepared the channel
\* c0 it hands to the updater: run the step; on success store the channel
\* (a channel back in Start leaves the store), queue what the step put
\* out and log an Update; on failure return the error with whatever the
\* transaction wrote so far
doUpdateChannel(root, s, chanID, c0, input) ==
    LET out == fsmStep(c0, input, s)
        root1 == IF out.ch.State = "Start"
                 THEN [root EXCEPT !.Channels = Del(@, chanID)]
                 ELSE putChannel(root, chanID, out.ch)
        root2 == addTxTasks(root1, [out.ch EXCEPT !.ID = chanID], out.txs)
        root3 == addMsgTasks(root2, out.ch, out.msgs)
    IN  IF out.err # "nil" THEN Fail(root, out.err)
        ELSE Ok(putUpdate(root3, Update("Channel", input, root3.Wallet.NativeBalance)))

\* the channels whose state after the transaction arms a timer
TimedStates == {"ChannelProposed", "PaymentProposed", "AwaitingSettlementMintime"}

\* a step of a call that has not returned yet
Running(op, a) == Ret(op, a, "running")

\* Agent.checkChannelUnique: the first stored channel, in key order, between
\* the accounts p and q in either role, with errExists; nil when none
checkChannelUnique(root, p, q) ==
    LET found == {id \in DOMAIN root.Channels :
                    \/ root.Channels[id].HostAcct = p /\ root.Channels[id].GuestAcct = q
                    \/ root.Channels[id].HostAcct = q /\ root.Channels[id].GuestAcct = p}
    IN  IF found = {} THEN [chanID |-> 0, err |-> "nil"]
        ELSE [chanID |-> CHOOSE id \in found : \A other \in found : id <= other,
              err |-> "errExists"]

\* Agent.nextChannelKeyIndex
nextChannelKeyIndex(root, bump) == [root EXCEPT !.NextKeypathIndex = @ + bump]

\* the channel literal if the setup fees came out of the channel's funding
NewChannel_FeesFromFunding(root, channelID, channelKeyIndex, hostAcctStr, guestAcctStr, hostAmount, starlightURL) ==
    [ZeroChannel EXCEPT
       !.ID = channelID, !.Role = "Host",
       !.HostAmount = hostAmount - 3 * root.Config.HostFeerate,
       !.RemoteURL = starlightURL,
       !.MaxRoundDuration = root.Config.MaxRoundDurMins,
       !.FinalityDelay = root.Config.FinalityDelayMins,
       !.ChannelFeerate = root.Config.ChannelFeerate,
       !.HostFeerate = root.Config.HostFeerate,
       !.KeyIndex = channelKeyIndex, !.GuestAcct = guestAcctStr,
       !.RoundNumber = 1, !.HostAcct = hostAcctStr]

\* the channel literal if it left RoundNumber at its zero value
NewChannel_RoundZero(root, channelID, channelKeyIndex, hostAcctStr, guestAcctStr, hostAmount, starlightURL) ==
    [ZeroChannel EXCEPT
       !.ID = channelID, !.Role = "Host",
       !.HostAmount = hostAmount,
       !.RemoteURL = starlightURL,
       !.MaxRoundDuration = root.Config.MaxRoundDurMins,
       !.FinalityDelay = root.Config.FinalityDelayMins,
       !.ChannelFeerate = root.Config.ChannelFeerate,
       !.HostFeerate = root.Config.HostFeerate,
       !.KeyIndex = channelKeyIndex, !.GuestAcct = guestAcctStr,
       !.HostAcct = hostAcctStr]

\* the fsm.Channel literal of DoCreateChannel, with the host address set
NewChannel(root, channelID, channelKeyIndex, hostAcctStr, guestAcctStr, hostAmount, starlightURL) ==
    [ZeroChannel EXCEPT
       !.ID = channelID,
       !.Role = "Host",
       !.HostAmount = hostAmount,
       !.RemoteURL = starlightURL,
       !.MaxRoundDuration = root.Config.MaxRoundDurMins,
       !.FinalityDelay = root.Config.FinalityDelayMins,
       !.ChannelFeerate = root.Config.ChannelFeerate,
       !.HostFeerate = root.Config.HostFeerate,
       !.KeyIndex = channelKeyIndex,
       !.GuestAcct = guestAcctStr,
       !.RoundNumber = 1,
       !.HostAcct = hostAcctStr]

\* the function DoCreateChannel passes to db.Update
DoCreateChannelTx(root, s, hostAcctStr, guestAcctStr, hostAmount, starlightURL) ==
    LET w == [root.Wallet EXCEPT !.Seqnum = @ + 3]
        channelKeyIndex == root.NextKeypathIndex
        root1 == nextChannelKeyIndex(root, 3)
        channelID == DeriveAccount(s, channelKeyIndex)
        ch == NewChannel(root1, channelID, channelKeyIndex, hostAcctStr, guestAcctStr,
                         hostAmount, starlightURL)
        newBalance == w.NativeBalance - SetupAndFundingReserveAmount(ch)
        root2 == [putChannel(root1, channelID, ch) EXCEPT
                    !.Wallet = [w EXCEPT !.NativeBalance = newBalance]]
    IN  IF ~root.Ready THEN Fail(root, "errAgentClosing")
        ELSE IF ~isReadyFunded(root) THEN Fail(root, "errNotFunded")
        ELSE IF ~ValidAddress(guestAcctStr) THEN Fail(root, "errInvalidAddress")
        ELSE IF getChannel(root1, channelID).State # "Start" THEN Fail(root1, "errExists")
        ELSE IF newBalance < 0 THEN Fail(root1, "errInsufficientBalance")
        ELSE doUpdateChannel(root2, s, channelID, ch,
                             CmdInput(Command("CreateChannel", hostAmount)))

\* Agent.DoCreateChannel up to and including checkChannelUnique: the
\* argument checks, the view of the host account, the federation lookup
\* of the guest (found: whether it answered) and the uniqueness check.  A
\* call that passes waits for its update transaction.
DoCreateChannelView(a, guest, hostAmount, found) ==
    LET hostAcctStr == db[a].PrimaryAcct
        guestAcctStr == db[guest].PrimaryAcct
        fail(e) == /\ ret' = Ret("DoCreateChannel", a, e)
                   /\ calls' = [calls EXCEPT ![a].made = @ + 1]
    IN  /\ calls[1].made + calls[2].made < MaxCreate
        /\ IF guest = 0 THEN fail("errEmptyAddress")
           ELSE IF hostAmount = 0 THEN fail("errEmptyAmount")
           ELSE IF ~found THEN fail("errFindingAccount")
           ELSE IF guestAcctStr = hostAcctStr THEN fail("errAcctsSame")
           ELSE IF checkChannelUnique(db[a], hostAcctStr, guestAcctStr).err # "nil"
           THEN fail("errExists")
           ELSE /\ calls' = [calls EXCEPT
                               ![a].made = @ + 1,
                               ![a].create = @ \cup
                                  {[n |-> calls[a].made + 1, hostAcctStr |-> hostAcctStr,
                                    guestAcctStr |-> guestAcctStr,
                                    starlightURL |-> guest, hostAmount |-> hostAmount]}]
                /\ ret' = Running("DoCreateChannel", a)
        /\ UNCHANGED <<db, seed, proc, chain, net>>

\* timers armed by the OnCommit hook of a committed update of chanID
Armed(c, old, res, chanID) ==
    IF /\ res.err = "nil"
       /\ getChannel(res.root, chanID).State \in TimedStates
       /\ getChannel(old, chanID).State # getChannel(res.root, chanID).State
    THEN [c EXCEPT !.timers = @ \cup {chanID}]
    ELSE c

\* DoCreateChannel if db.Update kept the writes of a transaction that failed
DoCreateChannel_NoRollback(a, call) ==
    LET res == DoCreateChannelTx(db[a], seed[a], call.hostAcctStr, call.guestAcctStr,
                                 call.hostAmount, call.starlightURL)
    IN  /\ call \in calls[a].create
        /\ db' = [db EXCEPT ![a] = res.root]
        /\ calls' = [calls EXCEPT ![a].create = @ \ {call}]
        /\ ret' = Ret("DoCreateChannel", a, res.err)
        /\ UNCHANGED <<seed, proc, chain, net>>

\* Agent.DoCreateChannel from db.Update on: the transaction that inserts
\* the channel and runs the CreateChannel command
DoCreateChannel(a, call) ==
    LET res == DoCreateChannelTx(db[a], seed[a], call.hostAcctStr, call.guestAcctStr,
                                 call.hostAmount, call.starlightURL)
    IN  /\ call \in calls[a].create
        /\ db' = [db EXCEPT ![a] = Commit(@, res)]
        /\ calls' = [calls EXCEPT ![a].create = @ \ {call}]
        /\ ret' = Ret("DoCreateChannel", a, res.err)
        /\ UNCHANGED <<seed, proc, chain, net>>

\* the function Agent.updateChannel runs in db.Update for DoCommand
DoCommandTx(root, s, channelID, c) ==
    IF ~root.Ready THEN Fail(root, "errAgentClosing")
    ELSE doUpdateChannel(root, s, channelID, getChannel(root, channelID), CmdInput(c))

\* Agent.DoCommand
DoCommand(a, channelID, c) ==
    LET res == DoCommandTx(db[a], seed[a], channelID, c)
    IN  /\ IF channelID = 0
           THEN ret' = Ret("DoCommand", a, "errNoChannelSpecified") /\ UNCHANGED <<db, calls>>
           ELSE IF c.Name = ""
           THEN ret' = Ret("DoCommand", a, "errNoCommandSpecified") /\ UNCHANGED <<db, calls>>
           ELSE /\ db' = [db EXCEPT ![a] = Commit(@, res)]
                /\ calls' = [calls EXCEPT ![a] = Armed(@, db[a], res, channelID)]
                /\ ret' = Ret("DoCommand", a, res.err)
        /\ UNCHANGED <<seed, proc, chain, net>>

\* the goroutine resolveChannelCreateConflict started with
\* go g.DoCommand(chanID, CleanUp); nobody reads what it returns
goDoCommand(a, job) ==
    LET res == DoCommandTx(db[a], seed[a], job.chanID, job.cmd)
    IN  /\ job \in calls[a].cmds
        /\ db' = [db EXCEPT ![a] = Commit(@, res)]
        /\ calls' = [calls EXCEPT ![a].cmds = @ \ {job}]
        /\ ret' = Ret("go DoCommand", a, res.err)
        /\ UNCHANGED <<seed, proc, chain, net>>

\* Agent.Authenticate: with the right name and password the seed is
\* decrypted unless the agent already holds it
Authenticate(a, name, password) ==
    LET root == db[a]
        ok == /\ validateUsername(name)
              /\ isReadyConfigured(root)
              /\ name = root.Config.Username
              /\ root.Config.PwType = "bcrypt"
              /\ bcryptMatches(root.Config.PwHash, password)
    IN  /\ seed' = IF ok /\ seed[a] = NoSeed
                   THEN [seed EXCEPT ![a] = openBox(root.EncryptedSeed, password)]
                   ELSE seed
        /\ ret' = Ret("Authenticate", a, IF ok THEN "nil" ELSE "false")
        /\ UNCHANGED <<db, proc, chain, calls, net>>

\* StartAgent over the store of an agent that ran before: the process is
\* new, so the seed is nil, no call is in progress and the requests it was
\* serving are gone; start launches the goroutines again and startChannel
\* arms the timers of the stored channels
StartAgent(a) ==
    /\ seed' = [seed EXCEPT ![a] = NoSeed]
    /\ proc' = [proc EXCEPT ![a] = start(ZeroProc, db[a])]
    /\ calls' = [calls EXCEPT
                   ![a].create = {},
                   ![a].cmds = {},
                   ![a].timers = {id \in DOMAIN db[a].Channels :
                                    db[a].Channels[id].State \in TimedStates}]
    /\ net' = [net EXCEPT ![Peer(a)].req = NoReq]
    /\ ret' = Ret("StartAgent", a, "nil")
    /\ UNCHANGED <<db, chain>>

\* timer if the callback did not run the Time step
timer_NoStep(a, chanID) ==
    /\ chanID \in calls[a].timers
    /\ calls' = [calls EXCEPT ![a].timers = @ \ {chanID}]
    /\ ret' = Ret("timer", a, "nil")
    /\ UNCHANGED <<db, seed, proc, chain, net>>

\* the callback scheduleTimer registered for chanID fires: a Time step;
\* when it fails the agent gives up its seed (mustDeauthenticate)
timer(a, chanID) ==
    LET res == doUpdateChannel(db[a], seed[a], chanID, getChannel(db[a], chanID), TimeInput)
    IN  /\ chanID \in calls[a].timers
        /\ db' = [db EXCEPT ![a] = Commit(@, res)]
        /\ seed' = IF res.err # "nil" THEN [seed EXCEPT ![a] = NoSeed] ELSE seed
        /\ calls' = [calls EXCEPT ![a].timers = @ \ {chanID}]
        /\ ret' = Ret("timer", a, res.err)
        /\ UNCHANGED <<proc, chain, net>>

\* the agents that hold a record of the channel
Holders(chanID) == {x \in Agents : Has(db[x].Channels, chanID)}

\* TbTx.do: the task runner submits the transaction of the i-th task to
\* the ledger and the task leaves the basket; the watchers of the
\* channel's accounts will see the transaction
TbTxDo(a, i) ==
    LET t == db[a].Tasks[i]
        tx == [chanID |-> t.ChanID, body |-> t.Body]
    IN  /\ i \in 1..Len(db[a].Tasks)
        /\ t.Kind = "tx"
        /\ t.ChanID # walletBucket
        /\ db' = [db EXCEPT ![a].Tasks = SubSeq(@, 1, i - 1) \o SubSeq(@, i + 1, Len(@))]
        /\ net' = [x \in Agents |->
                     IF x = a \/ x \in Holders(t.ChanID)
                     THEN [net[x] EXCEPT !.txs = @ \cup {tx}]
                     ELSE net[x]]
        /\ ret' = Ret("TbTx.do", a, "nil")
        /\ UNCHANGED <<seed, proc, chain, calls>>

\* the watcher of a channel's accounts sees a transaction: a Tx step
watchChannel(a, tx) ==
    LET res == doUpdateChannel(db[a], seed[a], tx.chanID,
                               getChannel(db[a], tx.chanID), TxInput(tx.body))
    IN  /\ tx \in net[a].txs
        /\ db' = [db EXCEPT ![a] = Commit(@, res)]
        /\ net' = [net EXCEPT ![a].txs = @ \ {tx}]
        /\ calls' = [calls EXCEPT ![a] = Armed(@, db[a], res, tx.chanID)]
        /\ ret' = Ret("watchChannel", a, res.err)
        /\ UNCHANGED <<seed, proc, chain>>

\* the Host fetches the next message of the Guest's outbound log and gives
\* it to the state machine
pollMessages(a, chanID) ==
    LET ch == getChannel(db[a], chanID)
        log == getMessages(db[ch.RemoteURL], chanID)
        m == log.Msgs[ch.PeerMsgIndex + 1]
        res == doUpdateChannel(db[a], seed[a], chanID,
                               [ch EXCEPT !.PeerMsgIndex = @ + 1], MsgInput(m))
    IN  /\ Has(db[a].Channels, chanID)
        /\ ch.Role = "Host"
        /\ ch.RemoteURL \in Agents
        /\ ch.PeerMsgIndex < log.LastSeqNum
        /\ db' = [db EXCEPT ![a] = Commit(@, res)]
        /\ calls' = [calls EXCEPT ![a] = Armed(@, db[a], res, chanID)]
        /\ ret' = Ret("pollMessages", a, res.err)
        /\ UNCHANGED <<seed, proc, chain, net>>

\* the first message task of a basket, 0 when there is none
FirstMsgTask(tasks) ==
    IF \E i \in 1..Len(tasks) : tasks[i].Kind = "msg"
    THEN CHOOSE i \in 1..Len(tasks) :
           /\ tasks[i].Kind = "msg"
           /\ \A j \in 1..(i - 1) : tasks[j].Kind # "msg"
    ELSE 0

\* an answer after which the runner posts the message again
Retriable(e) == e \in {"errChannelExistsRetriable", "errFetchingAccounts"}

\* TbMsg.do: the task runner of the peer of b posts the message of its
\* first message task to b's /starlight/message; the task stays in the
\* basket until b answers, and after an answer that asks for a retry
Posted(b) == db[Peer(b)].Tasks[FirstMsgTask(db[Peer(b)].Tasks)].Msg

\* the stores once b answered e: the task is done unless e asks for a retry
Answered(stores, b, e) ==
    LET i == FirstMsgTask(stores[Peer(b)].Tasks)
    IN  IF Retriable(e) \/ i = 0 THEN stores
        ELSE [stores EXCEPT ![Peer(b)].Tasks =
                SubSeq(@, 1, i - 1) \o SubSeq(@, i + 1, Len(@))]

\* the request b is handling is the one its peer's runner posted: pc is
\* how far handleMsg got
Handling(b, pc, chanID) == [net EXCEPT ![Peer(b)].req = [pc |-> pc, chanID |-> chanID]]

\* Agent.handleMsg up to the first transaction after the uniqueness view:
\* for a ChannelPropose checkChannelUnique runs, and either the conflict is
\* left to resolveChannelCreateConflict or the ledger is asked for the
\* sequence numbers (fetched: whether it answered); every other message
\* goes on to the update
handleMsg(b, fetched) ==
    LET m == Posted(b)
        cu == checkChannelUnique(db[b], m.HostAcct, m.GuestAcct)
        answer(e) == /\ db' = Answered(db, b, e)
                     /\ ret' = Ret("handleMsg", b, e)
                     /\ UNCHANGED net
    IN  /\ net[Peer(b)].req = NoReq
        /\ FirstMsgTask(db[Peer(b)].Tasks) # 0
        /\ db[Peer(b)].Tasks[FirstMsgTask(db[Peer(b)].Tasks)].RemoteURL = b
        /\ IF m.ChannelID = 0 THEN answer("errNoChannelSpecified")
           ELSE IF m.Type = "ChannelPropose" /\ cu.err # "nil"
           THEN /\ net' = Handling(b, "resolveChannelCreateConflict", cu.chanID)
                /\ ret' = Running("handleMsg", b)
                /\ UNCHANGED db
           ELSE IF m.Type = "ChannelPropose" /\ ~ValidAddress(m.ChannelID)
           THEN answer("errInvalidChannelID")
           ELSE IF m.Type = "ChannelPropose" /\ ~fetched
           THEN answer("errFetchingAccounts")
           ELSE /\ net' = Handling(b, "updateChannel", 0)
                /\ ret' = Running("handleMsg", b)
                /\ UNCHANGED db
        /\ UNCHANGED <<seed, proc, chain, calls>>

\* the function resolveChannelCreateConflict passes to db.Update, for the
\* stored channel chanID and the incoming proposal.  go: whether the
\* function started the CleanUp goroutine.
resolveChannelCreateConflictTx(root, chanID, propose) ==
    LET c == getChannel(root, chanID)
        proposedHostAddr == propose.HostAcct
    IN  IF ~root.Ready THEN [root |-> root, err |-> "errAgentClosing", go |-> FALSE]
        ELSE CASE c.State = "SettingUp" ->
                    [root |-> root, err |-> "errChannelExistsRetriable", go |-> FALSE]
               [] c.State = "ChannelProposed" ->
                    IF \/ propose.HostAmount < c.HostAmount
                       \/ (propose.HostAmount = c.HostAmount /\ proposedHostAddr < c.HostAcct)
                    THEN [root |-> root, err |-> "errExists", go |-> FALSE]
                    ELSE [root |-> root, err |-> "errChannelExistsRetriable", go |-> TRUE]
               [] c.State = "AwaitingCleanup" ->
                    [root |-> root, err |-> "errChannelExistsRetriable", go |-> FALSE]
               [] OTHER ->
                    [root |-> root, err |-> "errExists", go |-> FALSE]

\* Agent.resolveChannelCreateConflict, called by handleMsg with the channel
\* checkChannelUnique found
resolveChannelCreateConflict(b) ==
    LET req == net[Peer(b)].req
        res == resolveChannelCreateConflictTx(db[b], req.chanID, Posted(b))
    IN  /\ req.pc = "resolveChannelCreateConflict"
        /\ db' = Answered([db EXCEPT ![b] = Commit(@, res)], b, res.err)
        /\ calls' = IF res.go
                    THEN [calls EXCEPT ![b].cmds = @ \cup
                            {[chanID |-> req.chanID, cmd |-> Command("CleanUp", 0)]}]
                    ELSE calls
        /\ net' = [net EXCEPT ![Peer(b)].req = NoReq]
        /\ ret' = Ret("handleMsg", b, res.err)
        /\ UNCHANGED <<seed, proc, chain>>

\* the function handleMsg passes to updateChannel, if it did not compare
\* the proposed durations with the configured ones
handleMsgTx_NoDurationCheck(root, s, m) ==
    LET c == getChannel(root, m.ChannelID)
        c0 == IF m.Type = "ChannelPropose"
              THEN [c EXCEPT !.Role = "Guest", !.HostAcct = m.HostAcct,
                             !.GuestAcct = root.PrimaryAcct]
              ELSE c
    IN  doUpdateChannel(root, s, m.ChannelID, c0, MsgInput(m))

\* the function handleMsg passes to updateChannel
handleMsgTx(root, s, m) ==
    LET c == getChannel(root, m.ChannelID)
        c0 == IF m.Type = "ChannelPropose"
              THEN [c EXCEPT !.Role = "Guest", !.HostAcct = m.HostAcct,
                             !.GuestAcct = root.PrimaryAcct]
              ELSE c
    IN  IF m.Type = "ChannelPropose" /\ m.MaxRoundDuration # root.Config.MaxRoundDurMins
        THEN Fail(root, "errBadRequest")
        ELSE IF m.Type = "ChannelPropose" /\ m.FinalityDelay # root.Config.FinalityDelayMins
        THEN Fail(root, "errBadRequest")
        ELSE doUpdateChannel(root, s, m.ChannelID, c0, MsgInput(m))

\* Agent.handleMsg from channelRole on: a message for a channel this agent
\* hosts is refused, any other is given to the state machine
handleMsgUpdate(b) ==
    LET m == Posted(b)
        res == handleMsgTx(db[b], seed[b], m)
    IN  /\ net[Peer(b)].req.pc = "updateChannel"
        /\ IF getChannel(db[b], m.ChannelID).Role = "Host"
           THEN /\ db' = Answered(db, b, "errRemoteGuestMessage")
                /\ ret' = Ret("handleMsg", b, "errRemoteGuestMessage")
                /\ UNCHANGED calls
           ELSE /\ db' = Answered([db EXCEPT ![b] = Commit(@, res)], b, res.err)
                /\ calls' = [calls EXCEPT ![b] = Armed(@, db[b], res, m.ChannelID)]
                /\ ret' = Ret("handleMsg", b, res.err)
        /\ net' = [net EXCEPT ![Peer(b)].req = NoReq]
        /\ UNCHANGED <<seed, proc, chain>>

\* handleMsgReq without the check of the local role
handleMsgReq_NoRoleCheck(b, m, fetched) ==
    LET cu == checkChannelUnique(db[b], m.HostAcct, m.GuestAcct)
        rc == resolveChannelCreateConflictTx(db[b], cu.chanID, m)
        res == handleMsgTx(db[b], seed[b], m)
        answer(e) == ret' = Ret("handleMsg", b, e) /\ UNCHANGED <<db, calls>>
    IN  /\ IF m.ChannelID = 0 THEN answer("errNoChannelSpecified")
           ELSE IF m.Type = "ChannelPropose" /\ cu.err # "nil"
           THEN /\ db' = [db EXCEPT ![b] = Commit(@, rc)]
                /\ calls' = IF rc.go
                            THEN [calls EXCEPT ![b].cmds = @ \cup
                                    {[chanID |-> cu.chanID, cmd |-> Command("CleanUp", 0)]}]
                            ELSE calls
                /\ ret' = Ret("handleMsg", b, rc.err)
           ELSE IF m.Type = "ChannelPropose" /\ ~ValidAddress(m.ChannelID)
           THEN answer("errInvalidChannelID")
           ELSE IF m.Type = "ChannelPropose" /\ ~fetched
           THEN answer("errFetchingAccounts")
           ELSE /\ db' = [db EXCEPT ![b] = Commit(@, res)]
                /\ calls' = [calls EXCEPT ![b] = Armed(@, db[b], res, m.ChannelID)]
                /\ ret' = Ret("handleMsg", b, res.err)
        /\ UNCHANGED <<seed, proc, chain, net>>

\* Agent.handleMsg for a request that carries the message m, whoever sent
\* it; the handler from the decoded message to its answer.  fetched:
\* whether getSequenceNumbers got the accounts from the ledger.
handleMsgReq(b, m, fetched) ==
    LET cu == checkChannelUnique(db[b], m.HostAcct, m.GuestAcct)
        rc == resolveChannelCreateConflictTx(db[b], cu.chanID, m)
        res == handleMsgTx(db[b], seed[b], m)
        answer(e) == ret' = Ret("handleMsg", b, e) /\ UNCHANGED <<db, calls>>
    IN  /\ IF m.ChannelID = 0 THEN answer("errNoChannelSpecified")
           ELSE IF m.Type = "ChannelPropose" /\ cu.err # "nil"
           THEN /\ db' = [db EXCEPT ![b] = Commit(@, rc)]
                /\ calls' = IF rc.go
                            THEN [calls EXCEPT ![b].cmds = @ \cup
                                    {[chanID |-> cu.chanID, cmd |-> Command("CleanUp", 0)]}]
                            ELSE calls
                /\ ret' = Ret("handleMsg", b, rc.err)
           ELSE IF m.Type = "ChannelPropose" /\ ~ValidAddress(m.ChannelID)
           THEN answer("errInvalidChannelID")
           ELSE IF m.Type = "ChannelPropose" /\ ~fetched
           THEN answer("errFetchingAccounts")
           ELSE IF getChannel(db[b], m.ChannelID).Role = "Host"
           THEN answer("errRemoteGuestMessage")
           ELSE /\ db' = [db EXCEPT ![b] = Commit(@, res)]
                /\ calls' = [calls EXCEPT ![b] = Armed(@, db[b], res, m.ChannelID)]
                /\ ret' = Ret("handleMsg", b, res.err)
        /\ UNCHANGED <<seed, proc, chain, net>>

(* ------------------------------------------------------------------ *)
(* Opening: two funded agents that open channels to each other        *)
(* ------------------------------------------------------------------ *)

Bob == <<"b", "o", "b">>

AgentConfig(a) ==
    Config(IF a = 1 THEN Alice ELSE Bob, GoodPassword, TestnetURL, 0, 0, 0, 0, "nil", FALSE)

\* what the faucet sends a new account
ChannelStartingBalance == 10 * baseReserve

\* the transaction that creates the wallet account of an agent
FundingTx(acctID) ==
    LedgerTx(1, Faucet, <<Op("CreateAccount", Faucet, acctID, ChannelStartingBalance,
                             ZeroAsset, 0, FALSE)>>)

\* the store of an agent after ConfigInit and after its watcher saw the
\* account being created
FundedRoot(a, s) ==
    watchWalletTx(ConfiguredRoot(AgentConfig(a), s), s, DeriveAccountPrimary(s),
                  FundingTx(DeriveAccountPrimary(s)), "free", TRUE).root

\* the goroutines of an agent after ConfigInit and the faucet's answer:
\* getTestnetFaucetFunds has returned and closed the latch
FundedProc(a, s) ==
    [start(ZeroProc, ConfiguredRoot(AgentConfig(a), s)) EXCEPT
        !.latch = "closed", !.faucet = 0]

HostAmounts == {50, 60}

InitOpen ==
    \E s1 \in RandSeeds(1), s2 \in RandSeeds(2) :
        LET sd == [a \in Agents |-> IF a = 1 THEN s1 ELSE s2]
        IN  /\ db = [a \in Agents |-> FundedRoot(a, sd[a])]
            /\ seed = sd
            /\ proc = [a \in Agents |-> FundedProc(a, sd[a])]
            /\ chain = [a \in Agents |->
                          LedgerAfter(ZeroChain, DeriveAccountPrimary(sd[a]),
                                      FundingTx(DeriveAccountPrimary(sd[a])))]
            /\ calls = [a \in Agents |-> ZeroCalls]
            /\ net = [a \in Agents |-> ZeroNet]
            /\ ret = Ret("watchWalletAcct", 1, "nil")

\* what the task runner, the watchers and the peer do on their own
Background(a) ==
    \/ \E i \in 1..Len(db[a].Tasks) : TbTxDo(a, i)
    \/ \E tx \in net[a].txs : watchChannel(a, tx)
    \/ handleMsg(a, TRUE)
    \/ resolveChannelCreateConflict(a)
    \/ handleMsgUpdate(a)
    \/ \E job \in calls[a].cmds : goDoCommand(a, job)
    \/ \E chanID \in DOMAIN db[a].Channels : pollMessages(a, chanID)

NextOpen ==
    \E a \in Agents :
        \/ \E hostAmount \in HostAmounts : DoCreateChannelView(a, Peer(a), hostAmount, TRUE)
        \/ \E call \in calls[a].create : DoCreateChannel(a, call)
        \/ Background(a)

SpecOpen == InitOpen /\ [][NextOpen]_vars

(* ------------------------------------------------------------------ *)
(* Channel: agent 1 opens a channel to agent 2 and the two use it     *)
(* ------------------------------------------------------------------ *)

\* the highest round a payment is proposed in
MaxRound == 3

AgentName(a) == IF a = 1 THEN Alice ELSE Bob

ChannelFunding == 100

\* the amounts DoCreateChannel is called with: one the wallet can fund,
\* one it cannot
CreateAmounts == {ChannelFunding, 100 * baseReserve}

ChannelCommands ==
    {Command("ChannelPay", 10), Command("ChannelPay", 10 * ChannelFunding),
     Command("CloseChannel", 0), Command("CleanUp", 0)}

\* both agents are funded; agent 2 runs since its ConfigInit, agent 1 was
\* started again over its store and has not authenticated yet
InitChan ==
    /\ db = [a \in Agents |-> FundedRoot(a, a)]
    /\ seed = [a \in Agents |-> IF a = 1 THEN NoSeed ELSE a]
    /\ proc = [a \in Agents |->
                 IF a = 1 THEN start(ZeroProc, FundedRoot(a, a)) ELSE FundedProc(a, a)]
    /\ chain = [a \in Agents |->
                  LedgerAfter(ZeroChain, DeriveAccountPrimary(a),
                              FundingTx(DeriveAccountPrimary(a)))]
    /\ calls = [a \in Agents |-> ZeroCalls]
    /\ net = [a \in Agents |-> ZeroNet]
    /\ ret = Ret("StartAgent", 1, "nil")

NextChan ==
    \/ /\ seed[1] # NoSeed
       /\ \E chanID \in DOMAIN db[1].Channels : db[1].Channels[chanID].State \in TimedStates
       /\ StartAgent(1)
    \/ \E a \in Agents, password \in {GoodPassword, OtherPassword} :
          /\ seed[a] = NoSeed
          /\ Authenticate(a, AgentName(a), password)
    \/ \E hostAmount \in CreateAmounts :
          /\ db[1].Channels = <<>>
          /\ calls[1].create = {}
          /\ DoCreateChannelView(1, 2, hostAmount, TRUE)
    \/ \E call \in calls[1].create : DoCreateChannel(1, call)
    \/ \E a \in Agents :
          \/ \E i \in 1..Len(db[a].Tasks) : TbTxDo(a, i)
          \/ \E tx \in net[a].txs : watchChannel(a, tx)
          \/ handleMsg(a, TRUE)
          \/ resolveChannelCreateConflict(a)
          \/ handleMsgUpdate(a)
          \/ \E chanID \in DOMAIN db[a].Channels : pollMessages(a, chanID)
          \/ \E chanID \in calls[a].timers :
                /\ getChannel(db[a], chanID).State \in TimedStates
                /\ timer(a, chanID)
          \/ \E chanID \in DOMAIN db[a].Channels, c \in ChannelCommands :
                /\ c.Name = "ChannelPay" => getChannel(db[a], chanID).RoundNumber < MaxRound
                /\ DoCommand(a, chanID, c)

SpecChan == InitChan /\ [][NextChan]_vars

(* ------------------------------------------------------------------ *)
(* Configuration: a fresh agent being configured                      *)
(* ------------------------------------------------------------------ *)

InitFresh ==
    /\ db = [a \in Agents |-> EmptyRoot]
    /\ seed = [a \in Agents |-> NoSeed]
    /\ proc = [a \in Agents |-> ZeroProc]
    /\ chain = [a \in Agents |-> ZeroChain]
    /\ calls = [a \in Agents |-> ZeroCalls]
    /\ net = [a \in Agents |-> ZeroNet]
    /\ ret = Ret("StartAgent", 1, "nil")

NextConfig ==
    \E c \in ConfigInits, s \in RandSeeds(1) : ConfigInit(1, c, s)

SpecConfig == InitFresh /\ [][NextConfig]_vars

(* ------------------------------------------------------------------ *)
(* Closing the account, editing the configuration, shutting down      *)
(* ------------------------------------------------------------------ *)

\* the function DoCloseAccount passes to db.Update.  The errors of
\* b.Transaction and Sign are not looked at: when signing gave no
\* envelope (built is FALSE) the dereference of env.E panics.
DoCloseAccountTx(root, s, dest, built) ==
    IF ~root.Ready THEN Fail(root, "errAgentClosing")
    ELSE IF \E id \in DOMAIN root.Channels : root.Channels[id].State # "Closed"
         THEN Fail(root, "errChannelNotClosed")
    ELSE IF ~built THEN Fail([root EXCEPT !.Ready = FALSE], "panic")
    ELSE Ok(addTxTask([root EXCEPT !.Ready = FALSE],
                      TxTask(walletBucket, 0, DeriveAccountPrimary(s), "AccountMerge")))

\* Agent.DoCloseAccount
DoCloseAccount(a, dest, built) ==
    LET res == DoCloseAccountTx(db[a], seed[a], dest, built)
    IN  /\ db' = [db EXCEPT ![a] = Commit(@, res)]
        /\ ret' = Ret("DoCloseAccount", a, res.err)
        /\ UNCHANGED <<seed, proc, chain, calls, net>>

\* the task runner submits the transaction of a wallet task to the
\* ledger; the task leaves the basket
TbTxDoWallet(a, i) ==
    LET t == db[a].Tasks[i]
    IN  /\ i \in 1..Len(db[a].Tasks)
        /\ proc[a].runner > 0
        /\ t.Kind = "tx"
        /\ t.ChanID = walletBucket
        /\ db' = [db EXCEPT ![a].Tasks = SubSeq(@, 1, i - 1) \o SubSeq(@, i + 1, Len(@))]
        /\ net' = [net EXCEPT ![a].txs = @ \cup {[chanID |-> walletBucket, body |-> t.Body,
                                                  signer |-> t.Signer]}]
        /\ ret' = Ret("TbTx.do", a, "nil")
        /\ UNCHANGED <<seed, proc, chain, calls>>

\* the Config struct as ConfigEdit receives it
ConfigEditOf(u, pw, old, url, mrd, ka, pub) ==
    [Username |-> u, Password |-> pw, OldPassword |-> old, HorizonURL |-> url,
     MaxRoundDurMins |-> mrd, FinalityDelayMins |-> 0,
     ChannelFeerate |-> 0, HostFeerate |-> 0,
     KeepAlive |-> ka, Public |-> pub]

\* Config{}
EmptyEdit == ConfigEditOf(<<>>, "", "", "", 0, "nil", FALSE)

\* the function ConfigEdit passes to db.Update
ConfigEditTx(root, c, s) ==
    LET cfg1 == IF c.Password # ""
                THEN [root.Config EXCEPT !.PwType = "bcrypt",
                                         !.PwHash = bcryptHash(c.Password)]
                ELSE root.Config
        cfg2 == [cfg1 EXCEPT
                   !.HorizonURL = IF c.HorizonURL # "" THEN c.HorizonURL ELSE @,
                   !.MaxRoundDurMins = IF c.MaxRoundDurMins # 0 THEN c.MaxRoundDurMins ELSE @,
                   !.FinalityDelayMins =
                       IF c.FinalityDelayMins # 0 THEN c.FinalityDelayMins ELSE @,
                   !.ChannelFeerate = IF c.ChannelFeerate # 0 THEN c.ChannelFeerate ELSE @,
                   !.HostFeerate = IF c.HostFeerate # 0 THEN c.HostFeerate ELSE @]
        root1 == [root EXCEPT
                    !.Config = cfg2,
                    !.EncryptedSeed = IF c.Password # "" THEN sealBox(s, c.Password) ELSE @]
    IN  IF ~isReadyConfigured(root) THEN Fail(root, "errNotConfigured")
        ELSE IF c.Password # "" /\ root.Config.PwType # "bcrypt" THEN Ok(root)
        ELSE IF c.Password # "" /\ ~bcryptMatches(root.Config.PwHash, c.OldPassword)
             THEN Fail(root, "errPasswordsDontMatch")
        ELSE Ok(putUpdate(root1, Update("Config", "ConfigEdit", 0)))

\* Agent.ConfigEdit
ConfigEdit(a, c) ==
    LET res == ConfigEditTx(db[a], c, seed[a])
        fail(e) == ret' = Ret("ConfigEdit", a, e) /\ UNCHANGED <<db, proc>>
    IN  /\ Len(db[a].Updates) < MaxUpdates
        /\ IF c.Username # <<>> \/ c.KeepAlive # "nil" THEN fail("errInvalidEdit")
           ELSE IF [c EXCEPT !.OldPassword = ""] = EmptyEdit THEN fail("errEmptyConfigEdit")
           ELSE IF Len(c.Password) > MaxPasswordLen THEN fail("errInvalidPassword")
           ELSE IF c.HorizonURL # "" /\ ValidateTestnetURL(c.HorizonURL) # "nil"
           THEN fail(ValidateTestnetURL(c.HorizonURL))
           ELSE IF \/ c.MaxRoundDurMins < 0 \/ c.FinalityDelayMins < 0
                   \/ c.ChannelFeerate < 0 \/ c.HostFeerate < 0
           THEN fail("errInvalidInput")
           ELSE /\ db' = [db EXCEPT ![a] = Commit(@, res)]
                /\ proc' = IF /\ res.err = "nil"
                              /\ c.HorizonURL # ""
                              /\ ~(c.Password # "" /\ db[a].Config.PwType # "bcrypt")
                           THEN [proc EXCEPT ![a].url = c.HorizonURL]
                           ELSE proc
                /\ ret' = Ret("ConfigEdit", a, res.err)
        /\ UNCHANGED <<seed, chain, calls, net>>

\* Agent.Close: the root context is cancelled
Close(a) ==
    /\ ~proc[a].closed
    /\ proc' = [proc EXCEPT ![a].closed = TRUE]
    /\ ret' = Ret("Close", a, "nil")
    /\ UNCHANGED <<db, seed, chain, calls, net>>

\* watchWalletAcct returning if a stream error left the seed in memory
watchWalletAcctDone_KeepSeed(a, err) ==
    /\ proc[a].closed
    /\ proc[a].watchers # <<>>
    /\ proc[a].latch = "open" => ~err
    /\ proc' = [proc EXCEPT ![a].watchers = Tail(@)]
    /\ ret' = Ret("watchWalletAcct", a, IF err THEN "errStream" ELSE "done")
    /\ UNCHANGED <<db, seed, chain, calls, net>>

\* watchWalletAcct returns once the root context is cancelled: from the
\* select on the wallet latch, or from StreamTxs; when StreamTxs hands
\* back an error (err) the agent gives up its seed
watchWalletAcctDone(a, err) ==
    /\ proc[a].closed
    /\ proc[a].watchers # <<>>
    /\ proc[a].latch = "open" => ~err
    /\ proc' = [proc EXCEPT ![a].watchers = Tail(@)]
    /\ seed' = IF err THEN [seed EXCEPT ![a] = NoSeed] ELSE seed
    /\ ret' = Ret("watchWalletAcct", a, IF err THEN "errStream" ELSE "done")
    /\ UNCHANGED <<db, chain, calls, net>>

\* taskbasket.TB.Run returns once the root context is cancelled
tbRunDone(a) ==
    /\ proc[a].closed
    /\ proc[a].runner > 0
    /\ proc' = [proc EXCEPT ![a].runner = @ - 1]
    /\ ret' = Ret("tb.Run", a, "done")
    /\ UNCHANGED <<db, seed, chain, calls, net>>

\* one round of the loop of getTestnetFaucetFunds in which the faucet did
\* not answer with success: the loop sleeps (sleep returns at once when
\* the root context is cancelled) and goes round again; the second round
\* starts by logging a warning
getTestnetFaucetFundsRetry(a) ==
    /\ proc[a].faucet > 0
    /\ proc' = [proc EXCEPT ![a].tries = IF @ < 2 THEN @ + 1 ELSE @]
    /\ db' = IF proc[a].tries = 0
             THEN [db EXCEPT ![a] = putUpdate(@, Update("Warning", "faucet", 0))]
             ELSE db
    /\ ret' = Ret("getTestnetFaucetFunds", a, "retry")
    /\ UNCHANGED <<seed, chain, calls, net>>

(* ------------------------------------------------------------------ *)
(* Life: a funded agent in watchtower mode, closing its account, and  *)
(* configured again after the merge                                   *)
(* ------------------------------------------------------------------ *)

\* a good configuration and one without a password
LifeConfigs == {DemoConfig(FALSE), [DemoConfig(FALSE) EXCEPT !.Password = ""]}

\* the merge transaction DoCloseAccount queued, signed for the account
MergeTx(acctID) == [chanID |-> walletBucket, body |-> "AccountMerge", signer |-> acctID]

\* what the ledger shows the wallet watcher of acctID once a valid merge
\* transaction was submitted: the account merged into another
LifeOps(a, acctID) ==
    IF MergeTx(acctID) \in net[a].txs
    THEN {<<Op("AccountMerge", acctID, Other, 0, ZeroAsset, 0, FALSE)>>}
    ELSE {}

\* a channel ID no stored channel has
NoChannel == 1

\* both agents are configured, funded and authenticated
InitLife ==
    /\ db = [a \in Agents |-> FundedRoot(a, a)]
    /\ seed = [a \in Agents |-> a]
    /\ proc = [a \in Agents |-> FundedProc(a, a)]
    /\ chain = [a \in Agents |->
                  LedgerAfter(ZeroChain, DeriveAccountPrimary(a),
                              FundingTx(DeriveAccountPrimary(a)))]
    /\ calls = [a \in Agents |-> ZeroCalls]
    /\ net = [a \in Agents |-> ZeroNet]
    /\ ret = Ret("watchWalletAcct", 1, "nil")

\* the commands the local user tries while the agent has no seed or is
\* closing its account
LifeCommands ==
    /\ seed[1] = NoSeed \/ ~db[1].Ready
    /\ \/ \E code \in {"", "USD"}, built \in BOOLEAN : AddAsset(1, code, Issuer, built)
       \/ RemoveAsset(1, "USD", Issuer, TRUE)
       \/ \E dest \in {0, Other} : DoWalletPay(1, dest, 50, "", 0, TRUE)
       \/ /\ calls[1].create = {}
          /\ DoCreateChannelView(1, 2, ChannelFunding, TRUE)
       \/ \E chanID \in {0, NoChannel} : DoCommand(1, chanID, Command("CloseChannel", 0))

NextLife ==
    \/ seed[1] # NoSeed /\ StartAgent(1)
    \/ seed[1] = NoSeed /\ Authenticate(1, Alice, GoodPassword)
    \/ LifeCommands
    \/ \E call \in calls[1].create : DoCreateChannel(1, call)
    \/ \E built \in BOOLEAN : DoCloseAccount(1, Other, built)
    \/ TbTxDoWallet(1, 1)
    \/ /\ proc[1].watchers # <<>>
       /\ \E ops \in LifeOps(1, proc[1].watchers[1]) :
             watchWalletAcct(1, ops, ops[1].Source, "free", TRUE)
    \/ \E c \in LifeConfigs :
          /\ ~isReadyConfigured(db[1])
          /\ ConfigInit(1, c, 3)

SpecLife == InitLife /\ [][NextLife]_vars

(* ------------------------------------------------------------------ *)
(* WaitMsg: the long poll for the messages of a Guest                 *)
(* ------------------------------------------------------------------ *)

\* lastMsgNum: the number of the last message logged for the channel
lastMsgNum(root, chanID) == getMessages(root, chanID).LastSeqNum

RECURSIVE broadcastsOf(_, _)
broadcastsOf(msgs, ids) ==
    IF ids = {} THEN 0
    ELSE LET id == CHOOSE x \in ids : TRUE
         IN  msgs[id].LastSeqNum + broadcastsOf(msgs, ids \ {id})

\* how often committed transactions have broadcast on evcond: putMessage
\* registers one broadcast with every message it logs
Broadcasts(root) == broadcastsOf(root.Messages, DOMAIN root.Messages)

\* evcond if putMessage called g.evcond.Broadcast itself, inside the
\* write-transaction
evcondBroadcasts_InTx(a) ==
    IF calls[a].tx.pc = "ran" THEN Broadcasts(calls[a].tx.res.root) ELSE Broadcasts(db[a])

\* how often g.evcond has been broadcast for the transactions of a: the
\* hook putMessage registers with OnCommit runs when the transaction has
\* committed, and not at all when it is rolled back
evcondBroadcasts(a) == Broadcasts(db[a])

\* WaitMsg is entered: the goroutine that waits for ctx is started and
\* evcond.L is locked.  cancelled: ctx is done; told: that goroutine has
\* broadcast.
WaitMsg(a, chanID, i) ==
    /\ calls[a].wait.pc = "idle"
    /\ calls' = [calls EXCEPT ![a].wait =
                    [pc |-> "check", chanID |-> chanID, i |-> i,
                     cancelled |-> FALSE, told |-> FALSE, ticket |-> 0, heard |-> FALSE]]
    /\ ret' = Running("WaitMsg", a)
    /\ UNCHANGED <<db, seed, proc, chain, net>>

\* the loop condition: lastMsgNum(g.db, chanID) < i && ctx.Err() == nil
WaitMsgCheck(a) ==
    LET w == calls[a].wait
        again == lastMsgNum(db[a], w.chanID) < w.i /\ ~w.cancelled
    IN  /\ w.pc = "check"
        /\ calls' = [calls EXCEPT ![a].wait.pc = IF again THEN "wait" ELSE "returned"]
        /\ ret' = IF again THEN Running("WaitMsg", a) ELSE Ret("WaitMsg", a, "nil")
        /\ UNCHANGED <<db, seed, proc, chain, net>>

\* evcond.Wait(): the caller joins the waiters of the condition and
\* sleeps; only a broadcast made from now on wakes it
WaitMsgPark(a) ==
    /\ calls[a].wait.pc = "wait"
    /\ calls' = [calls EXCEPT ![a].wait.pc = "parked",
                              ![a].wait.ticket = evcondBroadcasts(a),
                              ![a].wait.heard = calls[a].wait.told]
    /\ ret' = Running("WaitMsg", a)
    /\ UNCHANGED <<db, seed, proc, chain, net>>

\* a broadcast made after the caller went to sleep wakes it, and the
\* caller goes round the loop
WaitMsgWake(a) ==
    LET w == calls[a].wait
    IN  /\ w.pc = "parked"
        /\ evcondBroadcasts(a) # w.ticket \/ w.told # w.heard
        /\ calls' = [calls EXCEPT ![a].wait.pc = "check"]
        /\ ret' = Running("WaitMsg", a)
        /\ UNCHANGED <<db, seed, proc, chain, net>>

\* the caller of WaitMsg cancels ctx
CancelWait(a) ==
    /\ calls[a].wait.pc \in {"check", "wait", "parked"}
    /\ ~calls[a].wait.cancelled
    /\ calls' = [calls EXCEPT ![a].wait.cancelled = TRUE]
    /\ ret' = Running("WaitMsg", a)
    /\ UNCHANGED <<db, seed, proc, chain, net>>

\* the goroutine of WaitMsg: <-ctx.Done(), then g.evcond.Broadcast()
WaitMsgCtxDone(a) ==
    /\ calls[a].wait.pc # "idle"
    /\ calls[a].wait.cancelled
    /\ ~calls[a].wait.told
    /\ calls' = [calls EXCEPT ![a].wait.told = TRUE]
    /\ ret' = IF calls[a].wait.pc = "returned" THEN ret ELSE Running("WaitMsg", a)
    /\ UNCHANGED <<db, seed, proc, chain, net>>

\* the steps of the caller of WaitMsg
WaitMsgStep(a) == WaitMsgCheck(a) \/ WaitMsgPark(a) \/ WaitMsgWake(a)

\* the channel agent 1 opens first
FirstChannel == DeriveAccount(1, 1)

\* agent 1 opens a channel to agent 2 and the two go on with it, while
\* the front end of agent 2 polls for the messages of the channel
NextWait ==
    \/ /\ calls[1].made = 0
       /\ DoCreateChannelView(1, 2, ChannelFunding, TRUE)
    \/ \E call \in calls[1].create : DoCreateChannel(1, call)
    \/ \E a \in Agents :
          \/ \E i \in 1..Len(db[a].Tasks) : TbTxDo(a, i)
          \/ \E tx \in net[a].txs : watchChannel(a, tx)
          \/ handleMsg(a, TRUE)
          \/ handleMsgUpdate(a)
          \/ \E chanID \in DOMAIN db[a].Channels : pollMessages(a, chanID)
    \/ \E i \in {1, 2} : WaitMsg(2, FirstChannel, i)
    \/ WaitMsgStep(2)
    \/ CancelWait(2)
    \/ WaitMsgCtxDone(2)

\* the caller of WaitMsg and its goroutine keep running
SpecWait ==
    /\ InitLife
    /\ [][NextWait]_vars
    /\ WF_vars(WaitMsgStep(2))
    /\ WF_vars(WaitMsgCtxDone(2))

(* ------------------------------------------------------------------ *)
(* Merge: a channel is opened and closed, then the account is closed   *)
(* ------------------------------------------------------------------ *)

\* agent 1 opens a channel to agent 2, closes it, merges its account away
\* and is configured anew
NextMerge ==
    \/ /\ calls[1].made = 0
       /\ DoCreateChannelView(1, 2, ChannelFunding, TRUE)
    \/ \E call \in calls[1].create : DoCreateChannel(1, call)
    \/ \E a \in Agents :
          \/ \E i \in 1..Len(db[a].Tasks) : TbTxDo(a, i)
          \/ \E tx \in net[a].txs : watchChannel(a, tx)
          \/ handleMsg(a, TRUE)
          \/ handleMsgUpdate(a)
          \/ \E chanID \in DOMAIN db[a].Channels : pollMessages(a, chanID)
          \/ \E chanID \in calls[a].timers :
                /\ getChannel(db[a], chanID).State \in TimedStates
                /\ timer(a, chanID)
    \/ \E chanID \in DOMAIN db[1].Channels :
          /\ getChannel(db[1], chanID).State = "PaymentChannel"
          /\ DoCommand(1, chanID, Command("CloseChannel", 0))
    \/ DoCloseAccount(1, Other, TRUE)
    \/ \E i \in 1..Len(db[1].Tasks) : TbTxDoWallet(1, i)
    \/ /\ proc[1].watchers # <<>>
       /\ \E ops \in LifeOps(1, proc[1].watchers[1]) :
             watchWalletAcct(1, ops, ops[1].Source, "free", TRUE)
    \/ /\ ~isReadyConfigured(db[1])
       /\ ConfigInit(1, DemoConfig(FALSE), 3)
    \/ getTestnetFaucetFunds(1)

SpecMerge == InitLife /\ [][NextMerge]_vars

(* ------------------------------------------------------------------ *)
(* Shutdown: Close, the workers, and the commands that come after      *)
(* ------------------------------------------------------------------ *)

\* a funded agent is used and closed; its workers return, and the local
\* user goes on calling wallet commands
NextShut ==
    \/ Close(1)
    \/ \E err \in BOOLEAN : watchWalletAcctDone(1, err)
    \/ tbRunDone(1)
    \/ seed[1] = NoSeed /\ Authenticate(1, Alice, GoodPassword)
    \/ AddAsset(1, "USD", Issuer, TRUE)
    \/ DoWalletPay(1, Other, 50, "", 0, TRUE)
    \/ \E i \in 1..Len(db[1].Tasks) : TbTxDoWallet(1, i)
    \/ /\ proc[1].watchers # <<>>
       /\ watchWalletAcct(1, <<Op("Payment", Other, proc[1].watchers[1], 1000, ZeroAsset, 0, FALSE)>>,
                          Other, "free", TRUE)

SpecShut == InitLife /\ [][NextShut]_vars

\* a configured agent waits for the faucet, is funded, and is closed
NextStop ==
    \/ Close(1)
    \/ getTestnetFaucetFunds(1)
    \/ getTestnetFaucetFundsRetry(1)
    \/ \E err \in BOOLEAN : watchWalletAcctDone(1, err)
    \/ tbRunDone(1)
    \/ seed[1] = NoSeed /\ Authenticate(1, Alice, GoodPassword)
    \/ /\ proc[1].watchers # <<>>
       /\ \E ops \in WalletOps(proc[1].watchers[1]) :
             watchWalletAcct(1, ops, ops[1].Source, "free", TRUE)

\* every worker but the faucet loop sees the root context cancelled and
\* returns; whether the faucet ever answers with success is not up to the
\* agent
SpecStop ==
    /\ InitWallet
    /\ [][NextStop]_vars
    /\ WF_vars(\E err \in BOOLEAN : watchWalletAcctDone(1, err))
    /\ WF_vars(tbRunDone(1))

(* ------------------------------------------------------------------ *)
(* Edit: configuring, logging in and editing the configuration        *)
(* ------------------------------------------------------------------ *)

\* Agent.mustDeauthenticate: the agent gives up its seed and goes on as a
\* watchtower
mustDeauthenticate(a) ==
    /\ seed[a] # NoSeed
    /\ seed' = [seed EXCEPT ![a] = NoSeed]
    /\ ret' = Ret("mustDeauthenticate", a, "nil")
    /\ UNCHANGED <<db, proc, chain, calls, net>>

\* the configurations the front end sends to ConfigInit: a good one and
\* one without a password
EditInits == {DemoConfig(FALSE), [DemoConfig(FALSE) EXCEPT !.Password = ""]}

\* the edits the front end sends to ConfigEdit
ConfigEdits ==
    {EmptyEdit,
     ConfigEditOf(<<>>, "", GoodPassword, "", 0, "nil", FALSE),
     ConfigEditOf(<<>>, "", "", "", 0, "nil", TRUE),
     ConfigEditOf(Bob, "", "", "", 0, "nil", FALSE),
     ConfigEditOf(<<>>, "", "", "", 0, "true", FALSE),
     ConfigEditOf(<<>>, OtherPassword, GoodPassword, "", 0, "nil", FALSE),
     ConfigEditOf(<<>>, GoodPassword, OtherPassword, "", 0, "nil", FALSE),
     ConfigEditOf(<<>>, LongPassword, GoodPassword, "", 0, "nil", FALSE),
     ConfigEditOf(<<>>, "", "", TestnetURL, 0, "nil", FALSE),
     ConfigEditOf(<<>>, "", "", MainnetURL, 0, "nil", FALSE),
     ConfigEditOf(<<>>, "", "", "", 45, "nil", FALSE),
     ConfigEditOf(<<>>, "", "", "", -1, "nil", FALSE)}

Logins == {Alice, Bob, BadName} \X {GoodPassword, OtherPassword}

NextEdit ==
    \/ \E c \in EditInits, s \in RandSeeds(1) : ConfigInit(1, c, s)
    \/ \E l \in Logins : Authenticate(1, l[1], l[2])
    \/ \E c \in ConfigEdits : ConfigEdit(1, c)
    \/ isReadyConfigured(db[1]) /\ StartAgent(1)
    \/ mustDeauthenticate(1)

SpecEdit == InitFresh /\ [][NextEdit]_vars

(* ------------------------------------------------------------------ *)
(* Ledger: the wallet of an agent from its funding to its merge       *)
(* ------------------------------------------------------------------ *)

\* the wallet is funded and credited, and in the end the account is
\* closed and its merge shows on the ledger
NextLedger ==
    \/ getTestnetFaucetFunds(1)
    \/ \E ops \in WalletOps(proc[1].watchers[1]), auth \in {"err", "required", "free"} :
          watchWalletAcct(1, ops, ops[1].Source, auth, TRUE)
    \/ DoCloseAccount(1, Other, TRUE)
    \/ \E i \in 1..Len(db[1].Tasks) : TbTxDoWallet(1, i)
    \/ \E ops \in LifeOps(1, proc[1].watchers[1]) :
          watchWalletAcct(1, ops, ops[1].Source, "free", TRUE)

SpecLedger == InitWallet /\ [][NextLedger]_vars

(* ------------------------------------------------------------------ *)
(* Peer: requests to /starlight/message for a channel the agent hosts  *)
(* ------------------------------------------------------------------ *)

\* messages a client may post to agent b about the channel ch that b
\* hosts: the answers the Guest would leave in its outbound log, a
\* proposal between the accounts of the channel with the roles swapped,
\* and a proposal from an account b has no channel with
PeerMsgs(ch) ==
    { ChannelMessage(ch, "ChannelAccept", 1, 0),
      ChannelMessage(ch, "PaymentPropose", ch.RoundNumber + 1, 10),
      ChannelMessage(ch, "PaymentAccept", ch.RoundNumber, ch.PendingAmount) }
    \cup { Message(ch.ID, "ChannelPropose", host, ch.HostAcct, amount,
                   ch.MaxRoundDuration, ch.FinalityDelay, 0, 0) :
             host \in {ch.GuestAcct, Other}, amount \in {ch.HostAmount, ch.HostAmount \div 2} }

\* agent 1 opens a channel to agent 2 and pays over it, while requests
\* about that channel arrive at agent 1's message endpoint
NextPeer ==
    \/ /\ calls[1].made = 0
       /\ DoCreateChannelView(1, 2, ChannelFunding, TRUE)
    \/ \E call \in calls[1].create : DoCreateChannel(1, call)
    \/ \E a \in Agents :
          \/ \E i \in 1..Len(db[a].Tasks) : TbTxDo(a, i)
          \/ \E tx \in net[a].txs : watchChannel(a, tx)
          \/ handleMsg(a, TRUE)
          \/ handleMsgUpdate(a)
          \/ \E chanID \in DOMAIN db[a].Channels : pollMessages(a, chanID)
    \/ \E chanID \in DOMAIN db[1].Channels :
          /\ getChannel(db[1], chanID).State = "PaymentChannel"
          /\ getChannel(db[1], chanID).RoundNumber < MaxRound
          /\ DoCommand(1, chanID, Command("ChannelPay", 10))
    \/ \E chanID \in DOMAIN db[1].Channels, fetched \in BOOLEAN :
          \E m \in PeerMsgs(db[1].Channels[chanID]) : handleMsgReq(1, m, fetched)
    \/ \E job \in calls[1].cmds : goDoCommand(1, job)

SpecPeer == InitLife /\ [][NextPeer]_vars

(* ------------------------------------------------------------------ *)
(* Commit: a write-transaction as two steps, with readers in between   *)
(* ------------------------------------------------------------------ *)

\* no write-transaction is open; the store has one writer at a time
NoTx == \A a \in Agents : calls[a].tx.pc = "idle"

\* Agent.DoCommand up to the end of the function it passes to
\* updateChannel: the writes and the OnCommit hooks wait for the commit
DoCommandRun(a, channelID, c) ==
    /\ NoTx
    /\ channelID # 0 /\ c.Name # ""
    /\ calls' = [calls EXCEPT ![a].tx =
                    [pc |-> "ran", op |-> "DoCommand", chanID |-> channelID,
                     res |-> DoCommandTx(db[a], seed[a], channelID, c)]]
    /\ ret' = Running("DoCommand", a)
    /\ UNCHANGED <<db, seed, proc, chain, net>>

\* Agent.handleMsg of a Guest up to the end of the function it passes to
\* updateChannel
handleMsgRun(b) ==
    /\ NoTx
    /\ net[Peer(b)].req.pc = "updateChannel"
    /\ getChannel(db[b], Posted(b).ChannelID).Role # "Host"
    /\ calls' = [calls EXCEPT ![b].tx =
                    [pc |-> "ran", op |-> "handleMsg", chanID |-> Posted(b).ChannelID,
                     res |-> handleMsgTx(db[b], seed[b], Posted(b))]]
    /\ ret' = Running("handleMsg", b)
    /\ UNCHANGED <<db, seed, proc, chain, net>>

\* the end of db.Update for the open write-transaction of a: it commits
\* when the function returned nil and is rolled back otherwise; the
\* OnCommit hooks run after a commit only, and the caller returns
updateEnd(a) ==
    LET t == calls[a].tx
        stores == [db EXCEPT ![a] = Commit(@, t.res)]
    IN  /\ t.pc = "ran"
        /\ db' = IF t.op = "handleMsg" THEN Answered(stores, a, t.res.err) ELSE stores
        /\ calls' = [calls EXCEPT ![a] = [Armed(@, db[a], t.res, t.chanID)
                                            EXCEPT !.tx = [pc |-> "idle"]]]
        /\ net' = IF t.op = "handleMsg" THEN [net EXCEPT ![Peer(a)].req = NoReq] ELSE net
        /\ ret' = Ret(t.op, a, t.res.err)
        /\ UNCHANGED <<seed, proc, chain>>

\* agent 1 opens a channel to agent 2 and pays over it, the transactions
\* of DoCommand and of the Guest's handleMsg taking two steps, while the
\* front end of agent 2 waits for the messages of the channel
NextCommit ==
    \/ /\ NoTx
       /\ calls[1].made = 0
       /\ DoCreateChannelView(1, 2, ChannelFunding, TRUE)
    \/ \E call \in calls[1].create : NoTx /\ DoCreateChannel(1, call)
    \/ \E a \in Agents :
          /\ NoTx
          /\ \/ \E i \in 1..Len(db[a].Tasks) : TbTxDo(a, i)
             \/ \E tx \in net[a].txs : watchChannel(a, tx)
             \/ handleMsg(a, TRUE)
             \/ \E chanID \in DOMAIN db[a].Channels : pollMessages(a, chanID)
             \/ \E chanID \in calls[a].timers :
                   /\ getChannel(db[a], chanID).State \in TimedStates
                   /\ timer(a, chanID)
    \/ \E chanID \in DOMAIN db[1].Channels, amount \in {10, 10 * ChannelFunding} :
          /\ getChannel(db[1], chanID).State \in {"PaymentChannel", "PaymentProposed"}
          /\ getChannel(db[1], chanID).RoundNumber < MaxRound
          /\ DoCommandRun(1, chanID, Command("ChannelPay", amount))
    \/ \E b \in Agents : handleMsgRun(b)
    \/ \E a \in Agents : updateEnd(a)
    \/ \E i \in {1, 2} : WaitMsg(2, FirstChannel, i)
    \/ WaitMsgStep(2)

SpecCommit == InitLife /\ [][NextCommit]_vars

(* ------------------------------------------------------------------ *)
(* Deadline: payments nobody has to answer, and the timers             *)
(* ------------------------------------------------------------------ *)

\* agent 1 opens a channel to agent 2 and pays over it; agent 2 answers
\* or not; agent 1 may be started again while a timer is pending
NextDeadline ==
    \/ /\ calls[1].made = 0
       /\ DoCreateChannelView(1, 2, ChannelFunding, TRUE)
    \/ \E call \in calls[1].create : DoCreateChannel(1, call)
    \/ \E a \in Agents :
          \/ \E i \in 1..Len(db[a].Tasks) : TbTxDo(a, i)
          \/ \E tx \in net[a].txs : watchChannel(a, tx)
          \/ handleMsg(a, TRUE)
          \/ handleMsgUpdate(a)
          \/ \E chanID \in DOMAIN db[a].Channels : pollMessages(a, chanID)
          \/ \E chanID \in calls[a].timers :
                /\ getChannel(db[a], chanID).State \in TimedStates
                /\ timer(a, chanID)
    \/ \E chanID \in DOMAIN db[1].Channels :
          /\ getChannel(db[1], chanID).State = "PaymentChannel"
          /\ getChannel(db[1], chanID).RoundNumber < MaxRound
          /\ DoCommand(1, chanID, Command("ChannelPay", 10))
    \/ /\ seed[1] # NoSeed
       /\ getChannel(db[1], FirstChannel).State \in {"PaymentProposed", "AwaitingSettlementMintime"}
       /\ StartAgent(1)
    \/ /\ seed[1] = NoSeed
       /\ Authenticate(1, Alice, GoodPassword)

\* the timers of agent 1 fire, its task runner submits what is in the
\* basket and the watcher of the channel's accounts reports what reaches
\* the ledger; nothing is assumed of the peer
SpecDeadline ==
    /\ InitLife
    /\ [][NextDeadline]_vars
    /\ WF_vars(\E chanID \in calls[1].timers :
                  /\ getChannel(db[1], chanID).State \in TimedStates
                  /\ timer(1, chanID))
    /\ WF_vars(\E i \in 1..Len(db[1].Tasks) : TbTxDo(1, i))
    /\ WF_vars(\E tx \in net[1].txs : watchChannel(1, tx))

(* ------------------------------------------------------------------ *)
(* Properties                                                         *)
(* ------------------------------------------------------------------ *)

\* the incoming proposal wins over the stored one by the stated rule:
\* the larger hostAmount, and between equal amounts the smaller host address
ProposalWins(propose, c) ==
    \/ propose.HostAmount > c.HostAmount
    \/ propose.HostAmount = c.HostAmount /\ propose.HostAcct < c.HostAcct

CleanUpJob(chanID) == [chanID |-> chanID, cmd |-> Command("CleanUp", 0)]

\* C1: when a ChannelPropose meets the agent's own channel in state
\* ChannelProposed, the proposal with the larger hostAmount wins, and
\* between equal amounts the one with the smaller host address; the agent
\* starts CleanUp on its own channel exactly when its proposal loses, and
\* otherwise keeps its channel and refuses the incoming proposal.
C1_TieBreakLargerAmountThenSmallerAddress ==
    [][\A b \in Agents :
         (/\ net[Peer(b)].req.pc = "resolveChannelCreateConflict"
          /\ net'[Peer(b)].req = NoReq
          /\ getChannel(db[b], net[Peer(b)].req.chanID).State = "ChannelProposed")
         => IF ProposalWins(Posted(b), getChannel(db[b], net[Peer(b)].req.chanID))
            THEN /\ CleanUpJob(net[Peer(b)].req.chanID) \in calls'[b].cmds
                 /\ ret'.err = "errChannelExistsRetriable"
            ELSE /\ calls'[b].cmds = calls[b].cmds
                 /\ ret'.err = "errExists"]_vars

\* the channels an agent hosts towards its peer
OwnChannels(a) ==
    {id \in DOMAIN db[a].Channels :
       /\ db[a].Channels[id].Role = "Host"
       /\ db[a].Channels[id].GuestAcct = db[Peer(a)].PrimaryAcct}

\* the states of a hosted channel whose proposal the guest accepted
AcceptedStates == {"AwaitingFunding", "PaymentChannel", "PaymentProposed", "AwaitingClose"}

\* C2: of two agents that proposed a channel to each other exactly one
\* gives its channel up and the other goes on: once the proposal of one
\* agent is accepted, the other agent holds no proposed or accepted channel
\* of its own for the pair.
C2_OneProposalSurvives ==
    \A a \in Agents :
        (\E id \in OwnChannels(a) : db[a].Channels[id].State \in AcceptedStates)
        => \A id \in OwnChannels(Peer(a)) :
             db[Peer(a)].Channels[id].State \notin AcceptedStates \cup {"ChannelProposed"}

\* C3: the store of an agent never holds two non-closed channels with the
\* same host and the same guest.
C3_OneLiveChannelPerPair ==
    \A a \in Agents : \A id1, id2 \in DOMAIN db[a].Channels :
        (/\ id1 # id2
         /\ db[a].Channels[id1].State # "Closed"
         /\ db[a].Channels[id2].State # "Closed")
        => ~(/\ db[a].Channels[id1].HostAcct = db[a].Channels[id2].HostAcct
             /\ db[a].Channels[id1].GuestAcct = db[a].Channels[id2].GuestAcct)

\* the stored non-closed channels between the two parties of channel c
LiveBetween(root, c) ==
    {id \in DOMAIN root.Channels :
       /\ root.Channels[id].State # "Closed"
       /\ \/ root.Channels[id].HostAcct = c.HostAcct /\ root.Channels[id].GuestAcct = c.GuestAcct
          \/ root.Channels[id].HostAcct = c.GuestAcct /\ root.Channels[id].GuestAcct = c.HostAcct}

\* C4: a channel is never inserted while the store holds a non-closed
\* channel between the same two accounts: the attempt fails and stores
\* nothing.
C4_NoInsertForExistingPair ==
    [][\A a \in Agents : \A id \in DOMAIN db'[a].Channels :
         id \notin DOMAIN db[a].Channels => LiveBetween(db[a], db'[a].Channels[id]) = {}]_vars

ChannelSum(c) == c.HostAmount + c.GuestAmount

\* the funding named by the input that created a channel: the amount of
\* the CreateChannel command, or the hostAmount of the ChannelPropose
FundingOf(input) ==
    IF input.Kind = "cmd" THEN input.Cmd.Amount ELSE input.Msg.HostAmount

LastUpdate(root) == root.Updates[Len(root.Updates)]

Settles(c, d) == c.HostAmount # d.HostAmount

Pending(root, id) ==
    SelectSeq(root.Tasks, LAMBDA t : t.Kind = "msg" /\ t.Msg.ChannelID = id)

ChannelOps ==
    {"DoCreateChannel", "DoCommand", "go DoCommand", "handleMsg", "pollMessages",
     "watchChannel", "timer"}

\* C8: when DoCreateChannel, DoCommand, the handling of a peer message, of
\* a ledger transaction or of a timer returns an error, the store of the
\* agent - channels, wallet, nextKeypathIndex, update log, task basket -
\* is exactly as before the input.
C8_FailedStepPersistsNothing ==
    [][(ret'.op \in ChannelOps /\ ret'.err \notin {"nil", "running"}) =>
         db'[ret'.agent] = db[ret'.agent]]_vars

\* DoCreateChannel failed in the state machine, after its transaction
\* had bumped the key index, debited the wallet and stored the channel
C8_Witness ==
    /\ ret.op = "DoCreateChannel"
    /\ ret.err = "errNoSeed"
    /\ isReadyFunded(db[ret.agent])

WalletCommands == {"AddAsset", "RemoveAsset", "DoWalletPay"}

\* C9: a wallet command (AddAsset, RemoveAsset, DoWalletPay) that returns
\* an error leaves the wallet (balances, reserve, seqnum), the update log
\* and the task basket of the agent as they were before the call.
C9_WalletCommandErrorChangesNothing ==
    [][(ret'.op \in WalletCommands /\ ret'.err # "nil") =>
         /\ db'[ret'.agent].Wallet = db[ret'.agent].Wallet
         /\ db'[ret'.agent].Updates = db[ret'.agent].Updates
         /\ db'[ret'.agent].Tasks = db[ret'.agent].Tasks]_vars

\* a payment from a funded wallet failed after the transaction function
\* had already debited the wallet
C9_Witness ==
    /\ ret.op = "DoWalletPay"
    /\ ret.err = "errBuild"
    /\ db[ret.agent].Wallet.NativeBalance > 0
    /\ db[ret.agent].Wallet.Seqnum > 0

ConfigInitErrors == {"errInvalidPassword", "errInvalidUsername", "errInvalidInput"}

\* C10: a ConfigInit that fails on its password, username or a negative
\* setting writes nothing: the store, the goroutines and the in-memory seed
\* of the agent are as before the call.
C10_FailedConfigInitWritesNothing ==
    [][(ret'.op = "ConfigInit" /\ ret'.err \in ConfigInitErrors) =>
         /\ db' = db
         /\ proc' = proc
         /\ seed' = seed]_vars

\* the commands that sign a transaction or a message with a key derived
\* from the seed
SigningOps ==
    {"AddAsset", "RemoveAsset", "DoWalletPay", "DoCloseAccount", "DoCreateChannel",
     "DoCommand"}

\* C11: while the in-memory seed of an agent is nil, every command that
\* needs a fresh signature returns an error and leaves the store of the
\* agent, task basket included, as it was: nothing signed without the
\* seed is queued.
C11_WatchtowerRejectsSigning ==
    [][\A a \in Agents :
         (/\ seed[a] = NoSeed
          /\ ret'.agent = a
          /\ ret'.op \in SigningOps
          /\ ret'.err # "running")
         => /\ ret'.err # "nil"
            /\ db'[a] = db[a]]_vars

\* C12: a WaitMsg call returns once a message with a number of at least
\* i is logged for the channel or its context is cancelled, however its
\* check and its wait interleave with the broadcasts.
C12_WaitMsgReturns ==
    (/\ calls[2].wait.pc \in {"check", "wait", "parked"}
     /\ \/ lastMsgNum(db[2], calls[2].wait.chanID) >= calls[2].wait.i
        \/ calls[2].wait.cancelled)
    ~> (calls[2].wait.pc = "returned")

\* the errors a command returns for its arguments, before it opens its
\* write transaction
InputErrors ==
    {"errEmptyAsset", "errEmptyIssuer", "errEmptyAddress", "errEmptyAmount",
     "errNoChannelSpecified", "errNoCommandSpecified", "errFindingAccount",
     "errAcctsSame", "errExists"}

\* C13 as stated: while ready is false after DoCloseAccount, every command
\* returns errAgentClosing and leaves the store as it was.
C13_LockOutErrAgentClosing ==
    [][\A a \in Agents :
         (/\ ~db[a].Ready
          /\ ret'.agent = a
          /\ ret'.op \in SigningOps
          /\ ret'.err # "running")
         => /\ ret'.err = "errAgentClosing"
            /\ db'[a] = db[a]]_vars

\* C13: while ready is false after DoCloseAccount, every command fails and
\* leaves the store as it was; it fails with errAgentClosing unless its
\* arguments are refused before its write transaction.
C13_LockOutRejects ==
    [][\A a \in Agents :
         (/\ ~db[a].Ready
          /\ ret'.agent = a
          /\ ret'.op \in SigningOps
          /\ ret'.err # "running")
         => /\ ret'.err \in {"errAgentClosing"} \cup InputErrors
            /\ db'[a] = db[a]]_vars

\* an AddAsset with good arguments was refused while the account closes
C13_Witness ==
    /\ ~db[1].Ready
    /\ isReadyConfigured(db[1])
    /\ ret = Ret("AddAsset", 1, "errAgentClosing")

\* C14: a restart ends the lock-out of DoCloseAccount: once StartAgent has
\* returned on the store of a configured agent, ready is true, so that no
\* command is refused with errAgentClosing.
C14_RestartEndsLockOut ==
    [][\A a \in Agents :
         (/\ ret'.op = "StartAgent"
          /\ ret'.agent = a
          /\ isReadyConfigured(db'[a]))
         => db'[a].Ready]_vars

\* C15: when the wallet watcher sees the primary account merged away, the
\* store of the agent holds no configuration, wallet, channel or message
\* any more, its update log is the one Account update with balance 0,
\* ready is true, and a ConfigInit on it is accepted.
C15_MergeWipesAgent ==
    [][\A a \in Agents :
         (/\ ret'.op = "watchWalletAcct"
          /\ ret'.agent = a
          /\ chain[a].open
          /\ ~chain'[a].open)
         => /\ db'[a].Config = ZeroConfig
            /\ db'[a].Wallet = ZeroWallet
            /\ db'[a].Channels = <<>>
            /\ db'[a].Messages = <<>>
            /\ db'[a].Updates = <<Update("Account", "Tx", 0)>>
            /\ db'[a].Ready
            /\ ~isReadyConfigured(db'[a])
            /\ ConfigInitTx(db'[a], DemoConfig(FALSE), HostURL, 3).err = "nil"]_vars

\* the merge of agent 1 was seen after it had opened and closed its
\* channel to agent 2, whose store still shows the channel
C15_Witness ==
    /\ ret = Ret("watchWalletAcct", 1, "nil")
    /\ ~chain[1].open
    /\ db[1].Channels = <<>>
    /\ db[1].Ready
    /\ \E id \in DOMAIN db[2].Channels : db[2].Channels[id].State = "PaymentChannel"

\* C16: once Close has cancelled the root context, a command that writes
\* to the store is refused with errAgentClosing.
C16_ClosedRejectsWrites ==
    [][\A a \in Agents :
         (/\ proc[a].closed
          /\ ret'.agent = a
          /\ ret'.op \in {"AddAsset", "DoWalletPay"})
         => /\ ret'.err = "errAgentClosing"
            /\ db'[a] = db[a]]_vars

\* C17: after Close every worker of the agent returns: the wallet and
\* channel watchers, the task runner and the faucet loop.
C17_WorkersExit ==
    proc[1].closed ~> (/\ proc[1].watchers = <<>>
                       /\ proc[1].runner = 0
                       /\ proc[1].faucet = 0)

\* C18: a seed the agent holds is never replaced by another one: from one
\* step to the next it stays, or it is cleared.
C18_SeedWriteOnce ==
    [][\A a \in Agents :
         (seed[a] # NoSeed /\ seed'[a] # NoSeed) => seed'[a] = seed[a]]_vars

\* C19: Authenticate returns true exactly when the agent is configured,
\* the name is the configured username and the password matches the
\* stored hash; after true the agent holds a seed, and false leaves the
\* seed as it was.
C19_AuthenticateIff ==
    [][\A l \in Logins :
         Authenticate(1, l[1], l[2])
         => /\ (ret'.err = "nil") <=>
                  (/\ isReadyConfigured(db[1])
                   /\ l[1] = db[1].Config.Username
                   /\ bcryptMatches(db[1].Config.PwHash, l[2]))
            /\ ret'.err = "nil" => seed'[1] # NoSeed
            /\ ret'.err # "nil" => seed' = seed]_vars

\* an edit that sets no password, no Horizon URL and no numeric field
NoEditableField(c) ==
    /\ c.Password = ""
    /\ c.HorizonURL = ""
    /\ c.MaxRoundDurMins = 0
    /\ c.FinalityDelayMins = 0
    /\ c.ChannelFeerate = 0
    /\ c.HostFeerate = 0

\* C20: an edit that sets the username or keepAlive, or that sets none of
\* the editable fields, is refused; a refused edit leaves the store as it
\* was, and an accepted one changes nothing but the password, the sealed
\* seed, the Horizon URL and the numeric settings.
C20_ConfigEditRules ==
    [][\A c \in ConfigEdits :
         ConfigEdit(1, c)
         => /\ (c.Username # <<>> \/ c.KeepAlive # "nil" \/ NoEditableField(c))
                  => ret'.err # "nil"
            /\ ret'.err # "nil" => db' = db
            /\ db'[1].Config.Username = db[1].Config.Username
            /\ db'[1].Config.KeepAlive = db[1].Config.KeepAlive
            /\ db'[1].Config.Public = db[1].Config.Public]_vars

\* C21 as stated: the stored wallet cursor never moves backwards.
C21_CursorNeverBack ==
    [][\A a \in Agents : db'[a].Wallet.Cursor >= db[a].Wallet.Cursor]_vars

\* the wallet watcher of a sees the account of a merged away
MergeSeen(a) ==
    /\ ret'.op = "watchWalletAcct"
    /\ ret'.agent = a
    /\ chain[a].open
    /\ ~chain'[a].open

\* C21: the stored wallet cursor never moves backwards, but for the wipe
\* on the merge of the account, which clears it with the wallet.
C21_CursorBackOnlyOnWipe ==
    [][\A a \in Agents :
         db'[a].Wallet.Cursor >= db[a].Wallet.Cursor \/ MergeSeen(a)]_vars

\* the watcher has taken the cursor past the funding transaction
C21_Witness ==
    /\ ret = Ret("watchWalletAcct", 1, "nil")
    /\ db[1].Wallet.Cursor >= 3

\* the key-path indexes DoCreateChannel took for the channel ch
KeySlots(ch) == {ch.KeyIndex, ch.KeyIndex + 1, ch.KeyIndex + 2}

\* C22: no two channels an agent created share a key-path index, the
\* indexes of a channel lie below the next free one, and the stored
\* nextKeypathIndex never decreases.
C22_KeyIndexesNeverReused ==
    [][\A a \in Agents :
         /\ db'[a].NextKeypathIndex >= db[a].NextKeypathIndex
         /\ \A id1, id2 \in DOMAIN db'[a].Channels :
              (/\ id1 # id2
               /\ db'[a].Channels[id1].Role = "Host"
               /\ db'[a].Channels[id2].Role = "Host")
              => KeySlots(db'[a].Channels[id1]) \cap KeySlots(db'[a].Channels[id2]) = {}
         /\ \A id \in DOMAIN db'[a].Channels :
              db'[a].Channels[id].Role = "Host"
              => \A k \in KeySlots(db'[a].Channels[id]) : k < db'[a].NextKeypathIndex]_vars

\* the state of the channel agent 1 opened
HostState == getChannel(db[1], FirstChannel).State

WatchedAcct == IF proc[1].watchers = <<>> THEN 0 ELSE proc[1].watchers[1]

\* the operation op is one the watcher's switch applies to the wallet of
\* acctID: the account is its destination, its trustor, or for
\* ChangeTrust its source
Touches(op, acctID) ==
    CASE op.Type \in {"CreateAccount", "Payment", "AccountMerge", "AllowTrust"} ->
           op.Dest = acctID
      [] op.Type = "ChangeTrust" -> op.Source = acctID
      [] OTHER -> FALSE

\* the last update of the log of agent 1 is new and of type Account
AccountUpdateAdded ==
    /\ Len(db'[1].Updates) > Len(db[1].Updates)
    /\ db'[1].Updates[Len(db'[1].Updates)].Type = "Account"

\* the watcher of agent 1 has handled the transaction of the single
\* operation ops[1], which touches the wallet, its write-transaction
\* committed, and the operation was applied: the wallet changed in more
\* than its cursor, or an Account update was published
WatcherApplied(ops, auth) ==
    /\ proc[1].watchers # <<>>
    /\ Touches(ops[1], WatchedAcct)
    /\ watchWalletAcct(1, ops, ops[1].Source, auth, TRUE)
    /\ ret'.err = "nil"
    /\ \/ [db'[1].Wallet EXCEPT !.Cursor = 0] # [db[1].Wallet EXCEPT !.Cursor = 0]
       \/ AccountUpdateAdded

\* C24: every operation the wallet watcher applies sets the wallet
\* cursor to the paging token of its transaction and appends an Account
\* update, in the one write-transaction.
C24_AppliedOpSetsCursorAndUpdate ==
    [][\A ops \in WalletOps(WatchedAcct), auth \in {"err", "required", "free"} :
         WatcherApplied(ops, auth)
         => /\ db'[1].Wallet.Cursor = chain'[1].n
            /\ AccountUpdateAdded]_vars

\* the watcher of agent 1 has handled the successful transaction of the
\* single operation ops[1] of the given type, which touches the wallet,
\* and its write-transaction committed
WatcherSaw(type, ops, auth) ==
    /\ proc[1].watchers # <<>>
    /\ ops[1].Type = type
    /\ Touches(ops[1], WatchedAcct)
    /\ watchWalletAcct(1, ops, ops[1].Source, auth, TRUE)
    /\ ret'.err = "nil"

\* C25: a payment to the primary account credits the wallet: a native
\* payment adds its amount to NativeBalance, a payment in an asset
\* that has a balance entry adds its amount to the entry's Amount and
\* leaves the entry's Asset and Authorized as they were.
C25_PaymentCreditsWallet ==
    [][\A ops \in WalletOps(WatchedAcct), auth \in {"err", "required", "free"} :
         WatcherSaw("Payment", ops, auth)
         => LET op == ops[1]
                old == db[1].Wallet
                new == db'[1].Wallet
            IN  IF op.Asset = ZeroAsset
                THEN new.NativeBalance = old.NativeBalance + op.Amount
                ELSE Has(old.Balances, op.Asset)
                     => /\ Has(new.Balances, op.Asset)
                        /\ new.Balances[op.Asset].Amount
                             = old.Balances[op.Asset].Amount + op.Amount
                        /\ new.Balances[op.Asset].Asset = old.Balances[op.Asset].Asset
                        /\ new.Balances[op.Asset].Authorized
                             = old.Balances[op.Asset].Authorized]_vars

\* C26: an AllowTrust whose trustor is the primary account sets the
\* Authorized flag of the asset's balance entry to the operation's
\* Authorize and leaves the entry's Amount and Asset as they were.
C26_AllowTrustSetsAuthorized ==
    [][\A ops \in WalletOps(WatchedAcct), auth \in {"err", "required", "free"} :
         WatcherSaw("AllowTrust", ops, auth)
         => LET op == ops[1]
                asset == Asset(op.Asset.Code, op.Source)
                old == db[1].Wallet
                new == db'[1].Wallet
            IN  Has(old.Balances, asset)
                => /\ Has(new.Balances, asset)
                   /\ new.Balances[asset].Authorized = op.Authorize
                   /\ new.Balances[asset].Amount = old.Balances[asset].Amount
                   /\ new.Balances[asset].Asset = old.Balances[asset].Asset]_vars

\* C27: a ChangeTrust of the primary account shows in the wallet: with
\* limit 0 the entry of the asset goes and baseReserve moves from Reserve
\* to NativeBalance; with another limit there is an entry that is not
\* pending and is authorized unless the issuer requires authorization.
C27_ChangeTrustShowsInWallet ==
    [][\A ops \in WalletOps(WatchedAcct), auth \in {"required", "free"} :
         WatcherSaw("ChangeTrust", ops, auth)
         => LET op == ops[1]
                old == db[1].Wallet
                new == db'[1].Wallet
            IN  IF op.Limit = 0
                THEN Has(old.Balances, op.Asset)
                     => /\ ~Has(new.Balances, op.Asset)
                        /\ new.NativeBalance = old.NativeBalance + baseReserve
                        /\ new.Reserve = old.Reserve - baseReserve
                ELSE /\ Has(new.Balances, op.Asset)
                     /\ ~new.Balances[op.Asset].Pending
                     /\ new.Balances[op.Asset].Authorized = (auth = "free")]_vars

\* the request with the message m gets as far as the check of the role:
\* it is no proposal between the accounts of a stored channel, and for a
\* proposal the ledger answered
ReachesRoleCheck(m, fetched) ==
    m.Type = "ChannelPropose"
    => /\ checkChannelUnique(db[1], m.HostAcct, m.GuestAcct).err = "nil"
       /\ fetched

C29_HooksAfterCommit ==
    /\ [][\A a \in Agents : \A id \in calls'[a].timers \ calls[a].timers :
            /\ getChannel(db'[a], id).State \in TimedStates
            /\ getChannel(db[a], id).State # getChannel(db'[a], id).State]_vars
    /\ [][\A a \in Agents :
            (calls[a].tx.pc = "ran" /\ calls[a].tx.res.err # "nil" /\ updateEnd(a))
            => /\ db'[a] = db[a]
               /\ calls'[a].timers = calls[a].timers
               /\ Broadcasts(db'[a]) = Broadcasts(db[a])]_vars
    /\ [][WaitMsgWake(2)
          => \/ Broadcasts(db[2]) > calls[2].wait.ticket
             \/ calls[2].wait.told # calls[2].wait.heard]_vars

\* the subscriber of agent 2 was woken by the broadcast of a committed
\* message, and a timer of agent 1 is armed for a committed proposal
C29_Witness ==
    /\ calls[2].wait.pc = "check"
    /\ Broadcasts(db[2]) > calls[2].wait.ticket
    /\ FirstChannel \in calls[1].timers
    /\ HostState = "PaymentProposed"

\* C30: an agent runs at most one wallet watcher and at most one
\* task-basket runner at any time.
C30_OneWatcherOneRunner ==
    \A a \in Agents :
        /\ Len(proc[a].watchers) <= 1
        /\ proc[a].runner <= 1

\* the tasks of agent 1's basket that hold a transaction of the wallet
WalletTasks == {i \in 1..Len(db[1].Tasks) :
                  db[1].Tasks[i].Kind = "tx" /\ db[1].Tasks[i].ChanID = walletBucket}

\* C31: no two transactions queued for the primary account carry the
\* same sequence number, and the stored wallet Seqnum is at least the
\* largest sequence number used.
C31_WalletSeqnumsDistinct ==
    /\ \A i, j \in WalletTasks : i # j => db[1].Tasks[i].Seq # db[1].Tasks[j].Seq
    /\ \A i \in WalletTasks : db[1].Tasks[i].Seq <= db[1].Wallet.Seqnum

\* C32: the latch Agent.wallet is closed at most once: no agent ever
\* closes the latch that is closed already.
C32_LatchClosedOnce ==
    \A a \in Agents : proc[a].latch # "panic"

\* C33: a password change seals the seed again: what the old password
\* opened before the edit, the new password opens after it, whether the
\* agent held its seed or not when the edit ran.
C33_PasswordChangeKeepsSeed ==
    [][\A c \in ConfigEdits :
         (/\ c.Password # ""
          /\ db[1].Config.PwType = "bcrypt"
          /\ ConfigEdit(1, c)
          /\ ret'.err = "nil")
         => openBox(db'[1].EncryptedSeed, c.Password)
              = openBox(db[1].EncryptedSeed, c.OldPassword)]_vars

(* ------------------------------------------------------------------ *)
(* Skip: the wallet stream when the watcher's transaction can fail     *)
(* ------------------------------------------------------------------ *)

\* the wallet stream of a configured agent, where building or signing the
\* home-domain transaction of a public agent may fail
NextSkip ==
    \/ getTestnetFaucetFunds(1)
    \/ \E ops \in WalletOps(proc[1].watchers[1]), auth \in {"err", "required", "free"},
          built \in BOOLEAN :
          watchWalletAcct(1, ops, ops[1].Source, auth, built)
    \/ \E i \in 1..Len(db[1].Tasks) : TbTxDoWallet(1, i)

SpecSkip == InitWallet /\ [][NextSkip]_vars

\* C34: a successful ledger transaction whose write-transaction fails in
\* the wallet watcher is not skipped: the stream does not move past it.
C34_FailedTxNotSkipped ==
    [][(ret'.op = "watchWalletAcct" /\ ret'.err # "nil") => chain' = chain]_vars


(* ------------------------------------------------------------------ *)
(* Pay: the wallet commands of a funded agent, for every amount        *)
(* ------------------------------------------------------------------ *)

\* the largest amount the signed balance type holds
MaxAmount == 2^(AmountBits - 1) - 1

\* amounts DoWalletPay is called with: a small one, the largest signed
\* amount, and unsigned amounts above it
PayAmounts == {50, MaxAmount, MaxAmount + 1, 2^AmountBits - 50}

\* a funded agent adds and removes a trustline, pays from its wallet and
\* opens channels
NextPay ==
    \/ \E built \in BOOLEAN : AddAsset(1, "USD", Issuer, built)
    \/ \E built \in BOOLEAN : RemoveAsset(1, "USD", Issuer, built)
    \/ \E amount \in PayAmounts, built \in BOOLEAN :
          DoWalletPay(1, Other, amount, "", 0, built)
    \/ \E hostAmount \in CreateAmounts : DoCreateChannelView(1, 2, hostAmount, TRUE)
    \/ \E call \in calls[1].create : DoCreateChannel(1, call)

SpecPay == InitOpen /\ [][NextPay]_vars

BalanceCommands == {"AddAsset", "RemoveAsset", "DoWalletPay", "DoCreateChannel"}

\* C35: a wallet command that commits leaves NativeBalance at zero or
\* above.
C35_NativeBalanceNonNegative ==
    [][(ret'.op \in BalanceCommands /\ ret'.err = "nil" /\ db'[1] # db[1])
         => db'[1].Wallet.NativeBalance >= 0]_vars

\* C36: a native DoWalletPay that succeeds takes exactly the amount and
\* the host fee from NativeBalance and does not raise it, and no amount
\* above the largest signed amount succeeds.
C36_PayTakesAmountAndFee ==
    [][\A amount \in PayAmounts :
         (DoWalletPay(1, Other, amount, "", 0, TRUE) /\ ret'.err = "nil")
         => /\ db'[1].Wallet.NativeBalance
                 = db[1].Wallet.NativeBalance - (amount + db[1].Config.HostFeerate)
            /\ db'[1].Wallet.NativeBalance <= db[1].Wallet.NativeBalance
            /\ amount <= MaxAmount]_vars


\* C37: AddAsset for an asset the wallet has an entry for leaves the
\* entry's Amount and Authorized as they were and reserves nothing more.
C37_AddAssetAgainKeepsEntry ==
    [][(/\ Has(db[1].Wallet.Balances, USD)
        /\ AddAsset(1, "USD", Issuer, TRUE)
        /\ ret'.err = "nil")
       => /\ db'[1].Wallet.Balances[USD].Amount = db[1].Wallet.Balances[USD].Amount
          /\ db'[1].Wallet.Balances[USD].Authorized = db[1].Wallet.Balances[USD].Authorized
          /\ db'[1].Wallet.Reserve = db[1].Wallet.Reserve]_vars


(* ------------------------------------------------------------------ *)
(* Tower: an agent that loses its seed and goes on as a watchtower     *)
(* ------------------------------------------------------------------ *)

\* agent 1 proposes a channel, is closed and started again, logs in, and
\* closes its account; its timers fire and its wallet stream ends
NextTower ==
    \/ /\ calls[1].made = 0
       /\ DoCreateChannelView(1, 2, ChannelFunding, TRUE)
    \/ \E call \in calls[1].create : DoCreateChannel(1, call)
    \/ \E i \in 1..Len(db[1].Tasks) : TbTxDo(1, i)
    \/ \E tx \in net[1].txs : watchChannel(1, tx)
    \/ \E chanID \in calls[1].timers :
          /\ getChannel(db[1], chanID).State \in TimedStates
          /\ timer(1, chanID)
    \/ Close(1)
    \/ \E err \in BOOLEAN : watchWalletAcctDone(1, err)
    \/ tbRunDone(1)
    \/ /\ proc[1].closed \/ \E chanID \in DOMAIN db[1].Channels :
                               db[1].Channels[chanID].State \in TimedStates
       /\ StartAgent(1)
    \/ \E password \in {GoodPassword, OtherPassword} :
          /\ seed[1] = NoSeed
          /\ Authenticate(1, Alice, password)
    \/ DoCloseAccount(1, Other, TRUE)
    \/ \E i \in 1..Len(db[1].Tasks) : TbTxDoWallet(1, i)
    \/ /\ proc[1].watchers # <<>>
       /\ \E ops \in LifeOps(1, proc[1].watchers[1]) :
             watchWalletAcct(1, ops, ops[1].Source, "free", TRUE)
    \/ /\ ~isReadyConfigured(db[1])
       /\ ConfigInit(1, DemoConfig(FALSE), 3)
    \/ getTestnetFaucetFunds(1)

SpecTower == InitLife /\ [][NextTower]_vars

\* a timer's update or the wallet stream of agent a has just failed
WorkerFailed(a) ==
    /\ ret'.agent = a
    /\ \/ ret'.op = "timer" /\ ret'.err # "nil"
       \/ ret'.op = "watchWalletAcct" /\ ret'.err = "errStream"

\* agent a, which held no seed, holds one now
SeedRestored(a) == seed[a] = NoSeed /\ seed'[a] # NoSeed

SecondChannel == DeriveAccount(3, 1)

\* the proposals a peer may post to agent b: for the channel agent 1 opens
\* or another one, from agent b's peer or from a stranger, with the
\* durations agent b is configured with or longer ones
ProposeMsgs(b) ==
    { Message(chanID, "ChannelPropose", host, db[b].PrimaryAcct, ChannelFunding,
              db[b].Config.MaxRoundDurMins + d[1], db[b].Config.FinalityDelayMins + d[2], 0, 0) :
        chanID \in {FirstChannel, SecondChannel},
        host \in {db[Peer(b)].PrimaryAcct, Other},
        d \in {<<0, 0>>, <<1, 0>>, <<0, 1>>} }

\* agent 1 opens a channel to agent 2, while proposals arrive at the
\* message endpoints of both; the ledger answers getSequenceNumbers
NextPropose ==
    \/ /\ calls[1].made = 0
       /\ DoCreateChannelView(1, 2, ChannelFunding, TRUE)
    \/ \E call \in calls[1].create : DoCreateChannel(1, call)
    \/ \E a \in Agents :
          \/ \E i \in 1..Len(db[a].Tasks) : TbTxDo(a, i)
          \/ \E tx \in net[a].txs : watchChannel(a, tx)
          \/ handleMsg(a, TRUE)
          \/ handleMsgUpdate(a)
          \/ \E chanID \in DOMAIN db[a].Channels : pollMessages(a, chanID)
          \/ \E m \in ProposeMsgs(a) :
                /\ Len(db[a].Updates) <= MaxUpdates
                /\ handleMsgReq(a, m, TRUE)
          \/ \E job \in calls[a].cmds : goDoCommand(a, job)

SpecPropose == InitLife /\ [][NextPropose]_vars

\* the proposal m names durations agent b is not configured with
DurationsDiffer(b, m) ==
    \/ m.MaxRoundDuration # db[b].Config.MaxRoundDurMins
    \/ m.FinalityDelay # db[b].Config.FinalityDelayMins

\* handleMsg of agent b gets as far as the update with the proposal m: no
\* stored channel joins the two accounts, the channel ID is an address,
\* and b does not host a channel of that ID
ReachesUpdate(b, m) ==
    /\ checkChannelUnique(db[b], m.HostAcct, m.GuestAcct).err = "nil"
    /\ ValidAddress(m.ChannelID)
    /\ getChannel(db[b], m.ChannelID).Role # "Host"

\* C39 as stated: a proposal whose durations differ from the configured
\* ones is answered errBadRequest and changes nothing (here with a ledger
\* that answers).
C39_BadDurationsRejected ==
    [][\A b \in Agents : \A m \in ProposeMsgs(b) :
         (DurationsDiffer(b, m) /\ handleMsgReq(b, m, TRUE))
         => /\ ret'.err = "errBadRequest"
            /\ db' = db
            /\ calls' = calls]_vars

\* C39: a proposal whose durations differ from the configured ones and
\* that reaches the update (the ledger answering) is answered
\* errBadRequest and leaves no channel record, update or task.
C39_BadDurationsRejectedAtUpdate ==
    [][\A b \in Agents : \A m \in ProposeMsgs(b) :
         (/\ DurationsDiffer(b, m)
          /\ ReachesUpdate(b, m)
          /\ handleMsgReq(b, m, TRUE))
         => /\ ret'.err = "errBadRequest"
            /\ db' = db
            /\ calls' = calls]_vars

\* agent 2 has refused a proposal for its durations
C39_Witness ==
    /\ ret = Ret("handleMsg", 2, "errBadRequest")
    /\ ~Has(db[2].Channels, SecondChannel)


====
